---------------------------- MODULE Spec2Model ----------------------------
(***************************************************************************)
(* A model of the Klyptio prisma-adapter access layer:                     *)
(*   - PrismaAdapter      (src/src/adapter.ts): replica rotation, query    *)
(*                        routing, connect with a retry budget, disconnect *)
(*   - PrismaQueryBuilder (src/scripts/setup.ts, lines 209-387): the       *)
(*                        constructor, where() and its sanitizer,          *)
(*                        pagination, execute() and executeRaw()           *)
(*   - PrismaCache        (src/src/cache.ts): the Redis-backed cache       *)
(* Each component has its own specification; the variables of the other    *)
(* components stay at their initial values.                                *)
(***************************************************************************)
EXTENDS Integers, Sequences, FiniteSets, TLC

VARIABLES
  \* ---- PrismaAdapter
  clients,            \* this.clients: sequence of connection ids
  currentReadClient,  \* this.currentReadClient (0-based index into clients)
  connected,          \* this.connected
  readLog,            \* history: the connections getReadClient returned, in call order
  lastQuery,          \* history: the routing of the last query() call
  cPc,                \* connect(): "idle" | "pending" | "resolved" | "rejected"
  cRetries,           \* config.retries of the connect frame that is awaiting $connect
  cBudget,            \* history: config.retries of the outermost connect call
  cFails,             \* history: how many $connect attempts the connection fails first
  cFailsLeft,         \* how many more $connect attempts will fail
  cAttempts,          \* history: $connect invocations made by this connect call
  dPc,                \* disconnect(): "idle" | "pending"
  lastCall,           \* history: the last connect / disconnect event: a connect call made or a call settled
  boolCall,           \* the softDelete / checkConnectionPool call in progress or last made
  config,             \* the PrismaConfig the adapter is constructed with, and process.env
  validation,         \* history: the last validateConfig call, its argument and its error
  created,            \* PrismaClient instances created so far
  ctor,               \* the constructor: "none" (not run) | "ok" | "failed"
  inflight,           \* the query() calls awaiting their result, in call order
  \* ---- PrismaQueryBuilder
  options,            \* this.options: the options the builder was constructed with
  qWhere,             \* this.query.where: field -> value, Unset when the field is absent
  qTake,              \* this.query.take, NoNumber when not set
  qSkip,              \* this.query.skip, NoNumber when not set
  qOrderBy,           \* this.query.orderBy: not set, one object, or an array
  orderBase,          \* history: this.query.orderBy as the constructor left it
  orderLog,           \* history: the orderBy calls made since construction
  isCount,            \* this.isCount
  isSingle,           \* this.isSingle
  qCalls,             \* history: pagination and mode calls made since construction
  lastExec,           \* history: what the last execute() handed to the connection
  timeout,            \* this.timeout, in milliseconds
  raw,                \* the executeRaw call in progress or last made
  rawEvents,          \* history: the settlements of that call's two racers, in order
  \* ---- PrismaCache and the Redis store behind it
  vals,               \* Redis string keys: cache key -> stored text and its TTL class
  idx,                \* the sorted set 'cache:access': cache key -> score, 0 when absent
  now,                \* Date.now()
  maxSize,            \* this.maxSize
  evictions,          \* this.stats.evictions
  task,               \* the cache operations in progress, one record per task slot
  queue,              \* tasks whose Redis command is sent and not yet answered, in send order
  warm,               \* a warmCache call awaiting findMany
  opsLeft,            \* how many more cache operations may be started
  lastEvent,          \* history: the last write, removal, expiry or completed read
  snap,               \* history: the store as the running set saw it at its size check
  fresh,              \* history: per evicting task, the keys written since it chose its candidates
  hits,               \* this.stats.hits
  misses,             \* this.stats.misses
  lookups,            \* history: the key lookups get and mget have performed
  lookupHits,         \* history: how many of them returned a value
  lastStats,          \* history: what the last getStats / getCacheStats returned
  lastMget,           \* history: the replies to the last mget and what it returned
  lastFail,           \* history: the last cache call whose Redis command failed
  warmLog,            \* history: the reads and writes of the last warmCache call
  \* ---- PerformanceMonitor
  metrics,            \* this.metrics: entity:operation key -> durations, <<>> when absent
  slowQueries,        \* this.slowQueries
  tracked,            \* history: every sample trackQuery was called with, in call order
  \* ---- setupPrisma and the project's file system
  dirs,               \* the directories that exist
  files,              \* path -> content, Absent when the file does not exist
  setupLog            \* history: the last setupPrisma run

callVars == <<lastCall, boolCall>>
configVars == <<config, validation, created, ctor>>
adapterVars == <<clients, currentReadClient, connected, readLog, lastQuery,
                 cPc, cRetries, cBudget, cFails, cFailsLeft, cAttempts, dPc, callVars,
                 configVars, inflight>>
orderVars == <<qOrderBy, orderBase, orderLog>>
builderVars == <<options, qWhere, qTake, qSkip, isCount, isSingle, qCalls, lastExec,
                 timeout, raw, rawEvents, orderVars>>
statVars == <<hits, misses, lookups, lookupHits, lastStats>>
logVars == <<lastMget, lastFail, warmLog>>
cacheVars == <<vals, idx, now, maxSize, evictions, task, queue, warm, opsLeft,
               lastEvent, snap, fresh, statVars, logVars>>
monitorVars == <<metrics, slowQueries, tracked>>
setupVars == <<dirs, files, setupLog>>
toolVars == <<monitorVars, setupVars>>
vars == <<adapterVars, builderVars, cacheVars, toolVars>>

Min(a, b) == IF a <= b THEN a ELSE b

\* query.take / query.skip / an option that is not set (undefined).
NoNumber == -1

(***************************************************************************)
(* PrismaConfig and validateConfig (src/src/cache.ts, lines 154-234)       *)
(***************************************************************************)
MaxReplicas == 3   \* read URLs configured: 0..MaxReplicas
MaxLog == 2    \* entries of config.prisma.log: 0..MaxLog
MaxPool == 2   \* pool sizes tried: 0..MaxPool

\* A URL field: undefined, the empty string, or a URL.
UrlValues == {"unset", "empty", "set"}

\* !url is false only for a non-empty string.
HasUrl(u) == u = "set"

\* The four levels validateConfig accepts, line 214.
validLevels == {"query", "info", "warn", "error"}

\* The levels tried: two valid ones and one that is not.
LogSamples == {"query", "error", "debug"}
LogLists == UNION {[1..n -> LogSamples] : n \in 0..MaxLog}

\* prisma.log: absent, or an array of levels.
Logs == {<<FALSE, <<>>>>} \cup {<<TRUE, l>> : l \in LogLists}

\* prisma.pool: absent, or an object whose min and max are numbers or not set.
PoolSizes == {NoNumber} \cup (0..MaxPool)
Pools == {<<FALSE, NoNumber, NoNumber>>} \cup {<<TRUE, a, b>> : a, b \in PoolSizes}

\* A config with a prisma section, and the value of process.env.DATABASE_URL.
Config(ce, ru, lg, u, e, pl) ==
  [prisma |-> TRUE, cacheEnabled |-> ce, redisUrl |-> ru, logSet |-> lg[1],
   log |-> lg[2], url |-> u, envUrl |-> e, poolSet |-> pl[1], poolMin |-> pl[2],
   poolMax |-> pl[3], replEnabled |-> FALSE, reads |-> 0]

\* Config c with prisma.replication = {enabled, reads: nReads URLs}.
WithReplication(c, enabled, nReads) ==
  [c EXCEPT !.replEnabled = enabled, !.reads = nReads]

\* The config the tests construct the adapter with: a database URL, no more.
DefaultConfig ==
  Config(FALSE, "unset", <<FALSE, <<>>>>, "set", "unset", <<FALSE, NoNumber, NoNumber>>)

\* A config without a prisma section.
MissingPrisma == [DefaultConfig EXCEPT !.prisma = FALSE, !.url = "unset"]

Configs ==
  {MissingPrisma, [MissingPrisma EXCEPT !.envUrl = "set"]} \cup
  {WithReplication(DefaultConfig, enabled, nReads) :
     enabled \in BOOLEAN, nReads \in 0..MaxReplicas} \cup
  {Config(ce, ru, lg, u, e, pl) :
     ce \in BOOLEAN, ru \in UrlValues, lg \in Logs, u \in UrlValues,
     e \in {"unset", "set"}, pl \in Pools}

\* line 228: pool.min > pool.max.
PoolExceedsOrEqual(min, max) == min >= max
PoolExceeds(min, max) == min > max

\* validateConfig, lines 200-234: the error of the first check that throws,
\* "none" when the function returns.
validateConfig(c) ==
  IF ~c.prisma THEN "prisma-required"
  ELSE IF c.cacheEnabled /\ ~HasUrl(c.redisUrl) THEN "redis-url"
  ELSE IF c.logSet /\ \E i \in 1..Len(c.log) : c.log[i] \notin validLevels
    THEN "log-level"
  ELSE IF ~HasUrl(c.url) /\ ~HasUrl(c.envUrl) THEN "database-url"
  ELSE IF /\ c.poolSet
          /\ c.poolMin # NoNumber
          /\ c.poolMax # NoNumber
          /\ PoolExceeds(c.poolMin, c.poolMax)
    THEN "pool"
  ELSE "none"

NoValidation == [called |-> FALSE, config |-> DefaultConfig, error |-> "none"]

(***************************************************************************)
(* PrismaAdapter                                                           *)
(***************************************************************************)
MaxCalls == 7      \* getReadClient calls recorded in readLog
MaxInflight == 2   \* query() calls awaiting their result at one time
MaxRetries == 2    \* retry budgets tried: 0..MaxRetries
MaxFails == 3      \* leading $connect failures tried: 0..MaxFails

\* The write connection; read replica i is connection i (1..n).
writeClient == 0

NoQuery == [write |-> FALSE, client |-> -1, before |-> -1, after |-> -1]

\* No softDelete / checkConnectionPool call made yet.
NoBoolCall == [op |-> "none", pc |-> "idle", outcome |-> "none", result |-> "none"]

\* constructor: one client per read URL when replication is enabled, and the
\* write client as the only read entry when that leaves the list empty.
BuildClientsWithWrite(enabled, nReads) ==
  <<writeClient>> \o (IF enabled THEN [i \in 1..nReads |-> i] ELSE <<>>)
BuildClients(enabled, nReads) ==
  LET pushed == IF enabled THEN [i \in 1..nReads |-> i] ELSE <<>>
  IN  IF Len(pushed) = 0 THEN <<writeClient>> ELSE pushed

\* constructor, lines 15 and 21: the write client, and one client per read
\* URL when replication is enabled.
ClientsCreated(enabled, nReads) == IF enabled THEN 1 + nReads ELSE 1

\* line 18: config.prisma?.replication?.enabled.
ReplicationEnabled(c) == c.prisma /\ c.replEnabled

InitAdapter ==
  /\ \E enabled \in BOOLEAN, nReads \in 0..MaxReplicas :
       config = WithReplication(DefaultConfig, enabled, nReads)
  /\ clients = BuildClients(ReplicationEnabled(config), config.reads)
  /\ created = ClientsCreated(ReplicationEnabled(config), config.reads)
  /\ currentReadClient = 0
  /\ connected = FALSE
  /\ readLog = <<>>
  /\ lastQuery = NoQuery
  /\ cPc = "idle"
  /\ cRetries = 0
  /\ cBudget = 0
  /\ cFails = 0
  /\ cFailsLeft = 0
  /\ cAttempts = 0
  /\ dPc = "idle"
  /\ lastCall = "none"
  /\ boolCall = NoBoolCall
  /\ validation = NoValidation
  /\ inflight = <<>>
  /\ ctor = "ok"

\* getReadClient, line 34: the index after the advance.
NextIndexSkip(cur, n) == (cur + 2) % n
NextIndexStale(cur, n) == cur
NextIndex(cur, n) == (cur + 1) % n

\* this.clients[i] for the 0-based index i.
ClientAt(i) == clients[i + 1]

\* getReadClient as called on its own (the replication test calls it directly).
getReadClient ==
  /\ Len(readLog) < MaxCalls
  /\ currentReadClient' = NextIndex(currentReadClient, Len(clients))
  /\ readLog' = Append(readLog, ClientAt(currentReadClient'))
  /\ UNCHANGED <<clients, connected, lastQuery, cPc, cRetries, cBudget, cFails,
                 cFailsLeft, cAttempts, dPc, callVars, configVars, inflight, builderVars, cacheVars, toolVars>>

\* query, line 39: which index the call leaves behind, and which client it uses.
QueryIndexAlways(write) == NextIndex(currentReadClient, Len(clients))
QueryIndex(write) ==
  IF write THEN currentReadClient ELSE NextIndex(currentReadClient, Len(clients))

QueryClient(write) ==
  IF write THEN writeClient ELSE ClientAt(QueryIndex(write))

\* connect, line 74: whether a failed attempt is retried.
ShouldRetryOnZero(retries) == retries >= 0
ShouldRetry(retries) == retries > 0

\* connect, lines 71-79: this.connected after the awaited $connect settled; only
\* line 72, after a resolved $connect, assigns it.
ConnectedAfterAttemptAlways(ok, cur) == TRUE
ConnectedAfterAttempt(ok, cur) == IF ok THEN TRUE ELSE cur

\* connect, line 78: with no retry left the caught error is thrown again as
\* it is, so connect rejects with the error $connect rejected with.
ConnectRejection(caught) == caught

\* connect(config) is called with retry budget r on a connection that fails its
\* next k $connect attempts; the call runs up to its first await of $connect.
connectCall(r, k) ==
  /\ cPc = "idle"
  /\ cPc' = "pending"
  /\ cRetries' = r
  /\ cBudget' = r
  /\ cFails' = k
  /\ cFailsLeft' = k
  /\ cAttempts' = 1
  /\ lastCall' = "connect:called"
  /\ UNCHANGED <<clients, currentReadClient, connected, readLog, lastQuery, dPc,
                 boolCall, configVars, inflight, builderVars, cacheVars, toolVars>>

\* The awaited $connect resolves: lines 71-72.
connectAttemptOk ==
  /\ cPc = "pending"
  /\ cFailsLeft = 0
  /\ connected' = ConnectedAfterAttempt(TRUE, connected)
  /\ cPc' = "resolved"
  /\ lastCall' = "connect:resolved"
  /\ UNCHANGED <<clients, currentReadClient, readLog, lastQuery, cRetries, cBudget,
                 cFails, cFailsLeft, cAttempts, dPc, boolCall, configVars, inflight, builderVars, cacheVars, toolVars>>

\* The awaited $connect rejects: lines 73-79. A retry is the recursive call,
\* which invokes $connect again with retries - 1.
connectAttemptFail ==
  /\ cPc = "pending"
  /\ cFailsLeft > 0
  /\ cFailsLeft' = cFailsLeft - 1
  /\ IF ShouldRetry(cRetries)
       THEN /\ cRetries' = cRetries - 1
            /\ cAttempts' = cAttempts + 1
            /\ cPc' = "pending"
            /\ UNCHANGED lastCall
       ELSE /\ cPc' = "rejected"
            /\ lastCall' = "connect:rejected"
            /\ UNCHANGED <<cRetries, cAttempts>>
  /\ connected' = ConnectedAfterAttempt(FALSE, connected)
  /\ UNCHANGED <<clients, currentReadClient, readLog, lastQuery, cBudget,
                 cFails, dPc, boolCall, configVars, inflight, builderVars, cacheVars, toolVars>>

\* The caller has seen the outcome; the adapter can be asked to connect again.
connectReturn ==
  /\ cPc \in {"resolved", "rejected"}
  /\ cPc' = "idle"
  /\ cRetries' = 0
  /\ cBudget' = 0
  /\ cFails' = 0
  /\ cFailsLeft' = 0
  /\ cAttempts' = 0
  /\ UNCHANGED <<clients, currentReadClient, connected, readLog, lastQuery, dPc,
                 callVars, configVars, inflight, builderVars, cacheVars, toolVars>>

\* disconnect, line 83: up to the await of $disconnect.
disconnectCall ==
  /\ dPc = "idle"
  /\ dPc' = "pending"
  /\ UNCHANGED <<clients, currentReadClient, connected, readLog, lastQuery, cPc,
                 cRetries, cBudget, cFails, cFailsLeft, cAttempts, callVars, configVars, inflight,
                 builderVars, cacheVars, toolVars>>

\* disconnect, line 84: $disconnect resolved.
disconnectDone ==
  /\ dPc = "pending"
  /\ dPc' = "idle"
  /\ connected' = FALSE
  /\ lastCall' = "disconnect:resolved"
  /\ UNCHANGED <<clients, currentReadClient, readLog, lastQuery, cPc,
                 cRetries, cBudget, cFails, cFailsLeft, cAttempts, boolCall, configVars, inflight,
                 builderVars, cacheVars, toolVars>>

\* softDelete (lines 101-111) and checkConnectionPool (lines 124-132) make one
\* call on this.prisma, the write client, inside try / catch. The call
\* resolves, rejects, or throws before it returns a promise (this.prisma[model]
\* is undefined for an unknown model); the catch covers the last two alike.
CallOutcomes == {"resolves", "rejects", "throws"}

\* What the method returns for each outcome: lines 107-110 and 127-131.
BoolResultRethrow(outcome) ==
  IF outcome = "resolves" THEN "true" ELSE IF outcome = "rejects" THEN "false" ELSE "thrown"
BoolResult(outcome) == IF outcome = "resolves" THEN "true" ELSE "false"

\* The method runs to its await, or to its catch when the call throws at once.
BoolCallStart(op, outcome) ==
  /\ boolCall.pc # "pending"
  /\ boolCall' = IF outcome = "throws"
                   THEN [op |-> op, pc |-> "returned", outcome |-> outcome,
                         result |-> BoolResult(outcome)]
                   ELSE [op |-> op, pc |-> "pending", outcome |-> outcome,
                         result |-> "none"]
  /\ UNCHANGED <<clients, currentReadClient, connected, readLog, lastQuery, cPc,
                 cRetries, cBudget, cFails, cFailsLeft, cAttempts, dPc, lastCall, configVars, inflight,
                 builderVars, cacheVars, toolVars>>

softDelete(outcome) == BoolCallStart("softDelete", outcome)

checkConnectionPool(outcome) == BoolCallStart("checkConnectionPool", outcome)

\* The awaited update / $queryRaw settles and the method returns.
boolCallSettles ==
  /\ boolCall.pc = "pending"
  /\ boolCall' = [boolCall EXCEPT !.pc = "returned",
                                  !.result = BoolResult(boolCall.outcome)]
  /\ UNCHANGED <<clients, currentReadClient, connected, readLog, lastQuery, cPc,
                 cRetries, cBudget, cFails, cFailsLeft, cAttempts, dPc, lastCall, configVars, inflight,
                 builderVars, cacheVars, toolVars>>

\* validateConfig(config) is called: it throws or returns, and assigns
\* nothing to the config or to the environment.
validateConfigCall ==
  /\ ~validation.called
  /\ validation' = [called |-> TRUE, config |-> config, error |-> validateConfig(config)]
  /\ UNCHANGED <<clients, currentReadClient, connected, readLog, lastQuery, cPc,
                 cRetries, cBudget, cFails, cFailsLeft, cAttempts, dPc, callVars,
                 config, created, ctor, inflight, builderVars, cacheVars, toolVars>>

\* new PrismaAdapter(config), lines 14-31: creates the write client and the
\* read clients and fills this.clients. validateConfig is not called, and
\* getClientConfig (lines 54-68) reads the config with defaults and throws on
\* nothing.
PrismaAdapter ==
  /\ ctor = "none"
  /\ created' = ClientsCreated(ReplicationEnabled(config), config.reads)
  /\ clients' = BuildClients(ReplicationEnabled(config), config.reads)
  /\ ctor' = "ok"
  /\ UNCHANGED <<currentReadClient, connected, readLog, lastQuery, cPc,
                 cRetries, cBudget, cFails, cFailsLeft, cAttempts, dPc, callVars,
                 config, validation, inflight, builderVars, cacheVars, toolVars>>

(***************************************************************************)
(* PrismaQueryBuilder: the filter, pagination and execution mode           *)
(***************************************************************************)
MaxLen == 3   \* longest input string

\* Characters of the input strings: the four the sanitizer strips one by one,
\* the dash of the comment sequence, and an ordinary letter.
Stripped == {";", "'", "\"", "\\"}
Alphabet == Stripped \cup {"-", "x"}

Strings == UNION {[1..n -> Alphabet] : n \in 0..MaxLen}
Numbers == {1, 2}
Fields == {"a", "b"}

\* A filter value: a string (its characters in str) or a number (in num); Unset
\* stands for a field the filter does not have.
Str(s) == [kind |-> "string", str |-> s, num |-> 0]
Num(n) == [kind |-> "number", str |-> <<>>, num |-> n]
Unset == [kind |-> "undefined", str |-> <<>>, num |-> 0]
Values == {Str(s) : s \in Strings} \cup {Num(n) : n \in Numbers}

\* typeof v === 'string'
IsString(v) == v.kind = "string"

\* String.prototype.replace(/[;'"\\]|--/g, ''): one left-to-right pass; at each
\* position the character class is tried first, then the two-dash sequence; a
\* match is dropped and the scan resumes after it, otherwise the character is kept.
RECURSIVE ReplaceAll(_)
ReplaceAll(s) ==
  IF s = <<>> THEN <<>>
  ELSE IF Head(s) \in Stripped THEN ReplaceAll(Tail(s))
  ELSE IF Len(s) >= 2 /\ s[1] = "-" /\ s[2] = "-" THEN ReplaceAll(Tail(Tail(s)))
  ELSE <<Head(s)>> \o ReplaceAll(Tail(s))

\* sanitizeValue, lines 334-339.
sanitizeValue(v) == IF IsString(v) THEN Str(ReplaceAll(v.str)) ELSE v

\* The conditions where() is called with: one field with any value, or both
\* fields with values of a small sample.
SampleValues == {Num(1), Str(<<"x", "-", "-">>), Str(<<"-", ";", "-">>)}
Conditions ==
  UNION {[{f} -> Values] : f \in Fields} \cup [Fields -> SampleValues]

\* page, line 379: the page size assumed while take is not set.
DefaultTake == 10

MaxPage == 3      \* page numbers tried: 1..MaxPage
MaxPerPage == 3   \* page sizes tried: 0..MaxPerPage
MaxChain == 3     \* pagination and mode calls chained on one builder

Pages == 1..MaxPage
PageSizes == 0..MaxPerPage

NoWhere == [f \in Fields |-> Unset]

MaxOrders == 3   \* orderBy calls per builder

\* One ordering element {[field]: direction}.
OrderFields == {"createdAt", "name"}
Directions == {"asc", "desc"}
Order(f, d) == [field |-> f, dir |-> d]

\* An orderBy value: not set (undefined), a single object, or an array; items
\* holds the object or the array's elements.
NoOrder == [kind |-> "unset", items |-> <<>>]
OrderObject(o) == [kind |-> "object", items |-> <<o>>]
OrderArray(items) == [kind |-> "array", items |-> items]

\* QueryBuilderOptions, lines 212-223 (select and include left out).
NoOptions == [where |-> NoWhere, take |-> NoNumber, skip |-> NoNumber,
              page |-> NoNumber, perPage |-> NoNumber, orderBy |-> NoOrder]

\* What execute() handed to the connection: the operations called, in order,
\* and the query they carried.
NoExec == [calls |-> <<>>, where |-> NoWhere, skip |-> NoNumber, take |-> NoNumber]

\* A logged builder call.
BCall(op, a, b) == [op |-> op, a |-> a, b |-> b]

\* `if (this.options.x) query.x = this.options.x`, lines 245-246: a number option
\* is copied unless it is undefined or 0.
CopyIfTruthy(n) == IF n = NoNumber \/ n = 0 THEN NoNumber ELSE n

\* buildBaseQuery, lines 238-249: where is copied as given; of the pagination
\* options only take and skip are read.
BaseWhere(o) == o.where
BaseTake(o) == CopyIfTruthy(o.take)
BaseSkip(o) == CopyIfTruthy(o.skip)

\* private timeout: number = 30000, line 227.
DefaultTimeout == 30000

\* No executeRaw call has been made.
NoRaw == [pc |-> "idle", query |-> <<>>, params |-> <<>>, error |-> "none",
          invoked |-> 0, exec |-> "none", timer |-> "none", delay |-> 0,
          outcome |-> "none", effects |-> 0, class |-> "none", via |-> "none"]

\* buildBaseQuery, line 244: an orderBy option is copied when it is truthy, as
\* every object and every array is, the empty array included.
BaseOrderBy(o) == o.orderBy

\* new PrismaQueryBuilder(client, {model}), as the tests build it.
InitBuilder ==
  /\ options = NoOptions
  /\ qWhere = BaseWhere(NoOptions)
  /\ qTake = BaseTake(NoOptions)
  /\ qSkip = BaseSkip(NoOptions)
  /\ qOrderBy = BaseOrderBy(NoOptions)
  /\ orderBase = BaseOrderBy(NoOptions)
  /\ orderLog = <<>>
  /\ isCount = FALSE
  /\ isSingle = FALSE
  /\ qCalls = <<>>
  /\ lastExec = NoExec
  /\ timeout = DefaultTimeout
  /\ raw = NoRaw
  /\ rawEvents = <<>>

\* The effect of the constructor (lines 231-236) on the builder's fields.
Construct(o) ==
  /\ options' = o
  /\ qWhere' = BaseWhere(o)
  /\ qTake' = BaseTake(o)
  /\ qSkip' = BaseSkip(o)
  /\ qOrderBy' = BaseOrderBy(o)
  /\ orderBase' = BaseOrderBy(o)
  /\ orderLog' = <<>>
  /\ isCount' = FALSE
  /\ isSingle' = FALSE
  /\ timeout' = DefaultTimeout

\* new PrismaQueryBuilder(client, options): a new builder replaces the old one.
PrismaQueryBuilder(o) ==
  /\ Construct(o)
  /\ qCalls' = <<>>
  /\ UNCHANGED <<lastExec, raw, rawEvents, adapterVars, cacheVars, toolVars>>

\* where(condition), lines 267-281: every entry sanitized, then merged over the
\* existing filter.
where(c) ==
  /\ qWhere' = [f \in Fields |->
                  IF f \in DOMAIN c THEN sanitizeValue(c[f]) ELSE qWhere[f]]
  /\ UNCHANGED <<orderVars, options, qTake, qSkip, isCount, isSingle, qCalls, lastExec,
                 timeout, raw, rawEvents,
                 adapterVars, cacheVars, toolVars>>

\* `this.query.take || 10`, line 379: undefined and 0 are both falsy.
TakeOrDefaultAlways(take) == DefaultTake
TakeOrDefault(take) == IF take = NoNumber \/ take = 0 THEN DefaultTake ELSE take

\* page, line 379: the skip computed for a page number under the current take.
PageSkipFromPage(pageNumber, take) == pageNumber * TakeOrDefault(take)
PageSkip(pageNumber, take) == (pageNumber - 1) * TakeOrDefault(take)

\* page(pageNumber), lines 378-381.
page(pageNumber) ==
  /\ Len(qCalls) < MaxChain
  /\ qSkip' = PageSkip(pageNumber, qTake)
  /\ qCalls' = Append(qCalls, BCall("page", pageNumber, 0))
  /\ UNCHANGED <<orderVars, options, qWhere, qTake, isCount, isSingle, lastExec,
                 timeout, raw, rawEvents,
                 adapterVars, cacheVars, toolVars>>

\* perPage(limit), lines 383-386.
perPage(limit) ==
  /\ Len(qCalls) < MaxChain
  /\ qTake' = limit
  /\ qCalls' = Append(qCalls, BCall("perPage", limit, 0))
  /\ UNCHANGED <<orderVars, options, qWhere, qSkip, isCount, isSingle, lastExec,
                 timeout, raw, rawEvents,
                 adapterVars, cacheVars, toolVars>>

\* orderBy, line 290: push onto the array.
PushOrderReplace(items, o) == <<o>>
PushOrder(items, o) == Append(items, o)

\* orderBy(field, direction), lines 283-292: an ordering that is not set becomes
\* the empty array, a single object becomes the array holding it, and the new
\* element is pushed. An array taken from the options is the options' own
\* array, so the push shows in this.options.orderBy as well.
orderBy(field, direction) ==
  LET started == IF qOrderBy.kind = "unset" THEN OrderArray(<<>>) ELSE qOrderBy
      wrapped == IF started.kind # "array" THEN OrderArray(started.items) ELSE started
      pushed == OrderArray(PushOrder(wrapped.items, Order(field, direction)))
  IN  /\ Len(orderLog) < MaxOrders
      /\ qOrderBy' = pushed
      /\ options' = IF options.orderBy.kind = "array"
                       THEN [options EXCEPT !.orderBy = pushed] ELSE options
      /\ orderLog' = Append(orderLog, Order(field, direction))
      /\ UNCHANGED <<orderBase, qWhere, qTake, qSkip, isCount, isSingle, qCalls,
                     lastExec, timeout, raw, rawEvents, adapterVars, cacheVars, toolVars>>

\* paginate(page, perPage), lines 294-298.
paginate(pageNumber, limit) ==
  /\ Len(qCalls) < MaxChain
  /\ qSkip' = (pageNumber - 1) * limit
  /\ qTake' = limit
  /\ qCalls' = Append(qCalls, BCall("paginate", pageNumber, limit))
  /\ UNCHANGED <<orderVars, options, qWhere, isCount, isSingle, lastExec,
                 timeout, raw, rawEvents,
                 adapterVars, cacheVars, toolVars>>

\* count(), lines 363-366.
count ==
  /\ Len(qCalls) < MaxChain
  /\ isCount' = TRUE
  /\ qCalls' = Append(qCalls, BCall("count", 0, 0))
  /\ UNCHANGED <<orderVars, options, qWhere, qTake, qSkip, isSingle, lastExec,
                 timeout, raw, rawEvents,
                 adapterVars, cacheVars, toolVars>>

\* single(), lines 373-376.
single ==
  /\ Len(qCalls) < MaxChain
  /\ isSingle' = TRUE
  /\ qCalls' = Append(qCalls, BCall("single", 0, 0))
  /\ UNCHANGED <<orderVars, options, qWhere, qTake, qSkip, isCount, lastExec,
                 timeout, raw, rawEvents,
                 adapterVars, cacheVars, toolVars>>

\* execute, lines 348-361: the operations called on the connection, in order.
\* Each branch returns with its call, so one call is made.
ExecuteCallsSingleFirst(cnt, sgl) ==
  IF sgl THEN <<"findFirst">> ELSE IF cnt THEN <<"count">> ELSE <<"findMany">>
ExecuteCalls(cnt, sgl) ==
  IF cnt THEN <<"count">> ELSE IF sgl THEN <<"findFirst">> ELSE <<"findMany">>

\* What execute() hands to the connection for the builder's present fields.
Executed(cnt, sgl, w, sk, tk) ==
  [calls |-> ExecuteCalls(cnt, sgl), where |-> w, skip |-> sk, take |-> tk]

\* execute(), lines 348-361, up to the call on the connection.
execute ==
  /\ Len(qCalls) < MaxChain
  /\ lastExec' = Executed(isCount, isSingle, qWhere, qSkip, qTake)
  /\ qCalls' = Append(qCalls, BCall("execute", 0, 0))
  /\ UNCHANGED <<orderVars, options, qWhere, qTake, qSkip, isCount, isSingle,
                 timeout, raw, rawEvents,
                 adapterVars, cacheVars, toolVars>>

(***************************************************************************)
(* PrismaQueryBuilder.executeRaw: statement and parameter checks, then the *)
(* race between the connection's raw execution and a timer                 *)
(***************************************************************************)
MaxParams == 2   \* parameters given to executeRaw: 0..MaxParams

\* String.prototype.trim(): white space is removed from both ends.
WhiteSpace == {" ", "\t", "\n"}
RECURSIVE TrimStart(_)
TrimStart(s) ==
  IF s # <<>> /\ Head(s) \in WhiteSpace THEN TrimStart(Tail(s)) ELSE s
RECURSIVE TrimEnd(_)
TrimEnd(s) ==
  IF s # <<>> /\ s[Len(s)] \in WhiteSpace THEN TrimEnd(SubSeq(s, 1, Len(s) - 1)) ELSE s
Trim(s) == TrimEnd(TrimStart(s))

\* String.prototype.toLowerCase(), for the letters the statements are written in.
LowerChar(c) ==
  CASE c = "S" -> "s" [] c = "E" -> "e" [] c = "L" -> "l" [] c = "C" -> "c"
    [] c = "T" -> "t" [] c = "D" -> "d" [] c = "R" -> "r" [] c = "O" -> "o"
    [] c = "P" -> "p" [] OTHER -> c
ToLowerCase(s) == [i \in 1..Len(s) |-> LowerChar(s[i])]

\* String.prototype.startsWith(prefix)
StartsWith(s, prefix) ==
  Len(s) >= Len(prefix) /\ SubSeq(s, 1, Len(prefix)) = prefix

\* line 309: query.trim().toLowerCase().startsWith('select')
IsSelect(q) == StartsWith(ToLowerCase(Trim(q)), <<"s", "e", "l", "e", "c", "t">>)

\* The statements executeRaw is called with.
Statements ==
  {<<"S", "E", "L", "E", "C", "T", " ", "1">>,
   <<" ", "\n", "s", "e", "l", "e", "c", "t", " ", "1", " ">>,
   <<"S", "e", "L", "e", "C", "t">>,
   <<"s", "e", "l", "e", "c", "t", "x">>,
   <<"D", "R", "O", "P", " ", "x">>,
   <<"x", " ", "s", "e", "l", "e", "c", "t">>,
   <<"s", "e", "l">>,
   <<" ", " ">>,
   <<>>}

\* Parameters that are neither strings nor numbers: an object (plain object,
\* array, Date) and null.
ObjectParam == [kind |-> "object", str |-> <<>>, num |-> 0]
NullParam == [kind |-> "null", str |-> <<>>, num |-> 0]

ParamValues ==
  {Num(1), Str(<<"x">>), Str(<<"x", "-", "-">>), Str(<<"-", "x", "-">>),
   ObjectParam, NullParam}
ParamLists == UNION {[1..n -> ParamValues] : n \in 0..MaxParams}

\* typeof param === 'object' (true of null as well)
TypeofObject(v) == v.kind \in {"object", "null"}

\* line 325: typeof param === 'object' && param !== null
IsObjectParam(v) == TypeofObject(v) /\ v.kind # "null"

\* String.prototype.includes('--')
StartsWithDashDash(s) == Len(s) >= 2 /\ s[1] = "-" /\ s[2] = "-"
IncludesDashDash(s) == \E i \in 1..(Len(s) - 1) : s[i] = "-" /\ s[i + 1] = "-"

\* validateParams, lines 323-332: the error thrown for the first offending
\* parameter, "none" when the loop ends without throwing.
RECURSIVE validateParams(_)
validateParams(params) ==
  IF params = <<>> THEN "none"
  ELSE IF IsObjectParam(Head(params)) THEN "object-param"
  ELSE IF IsString(Head(params)) /\ IncludesDashDash(Head(params).str) THEN "injection"
  ELSE validateParams(Tail(params))

\* lines 309-313: the error executeRaw throws before it reaches the connection.
RawError(q, params) ==
  IF ~IsSelect(q) THEN "not-select" ELSE validateParams(params)

\* The class of the error object each failure is raised with: `new Error(...)`
\* on lines 310, 318, 325 and 328.
ThrownClass(error) == "Error"

\* A rejection that comes from the driver carries the driver's own error.
DriverError == "DriverError"

\* The timeouts given to setTimeout (those of the tests).
Timeouts == {100, 200}

\* setTimeout(ms), lines 368-371.
setTimeout(ms) ==
  /\ timeout' = ms
  /\ UNCHANGED <<orderVars, options, qWhere, qTake, qSkip, isCount, isSingle, qCalls, lastExec,
                 raw, rawEvents, adapterVars, cacheVars, toolVars>>

\* executeRaw(query, params), lines 308-321, up to its return: either a check
\* throws, or $executeRaw is invoked on the connection, the timer is started
\* with this.timeout, and the race of the two is returned.
executeRaw(q, params) ==
  /\ raw.pc = "idle"
  /\ raw' = IF RawError(q, params) # "none"
              THEN [NoRaw EXCEPT !.pc = "settled", !.query = q, !.params = params,
                                 !.via = "builder",
                                 !.error = RawError(q, params), !.outcome = "error",
                                 !.class = ThrownClass(RawError(q, params))]
              ELSE [NoRaw EXCEPT !.pc = "racing", !.query = q, !.params = params,
                                 !.via = "builder",
                                 !.invoked = 1, !.exec = "inflight",
                                 !.timer = "armed", !.delay = timeout]
  /\ rawEvents' = <<>>
  /\ UNCHANGED <<orderVars, options, qWhere, qTake, qSkip, isCount, isSingle, qCalls, lastExec,
                 timeout, adapterVars, cacheVars, toolVars>>

\* PrismaAdapter.execute(query, params), src/src/adapter.ts lines 91-93: the
\* statement and its parameters are handed to this.writeClient.$executeRaw as
\* they are and its promise is returned; nothing is checked and no timer is
\* started.
adapterExecute(q, params) ==
  /\ raw.pc = "idle"
  /\ raw' = [NoRaw EXCEPT !.pc = "awaiting", !.query = q, !.params = params,
                          !.via = "adapter", !.invoked = 1, !.exec = "inflight"]
  /\ rawEvents' = <<>>
  /\ UNCHANGED <<orderVars, options, qWhere, qTake, qSkip, isCount, isSingle, qCalls, lastExec,
                 timeout, adapterVars, cacheVars, toolVars>>

\* Promise.race, line 315: the race settles with its first settlement and
\* keeps that result.
RaceOutcomeLast(current, settlement) == settlement
RaceOutcome(current, settlement) ==
  IF current = "none" THEN settlement ELSE current

\* The connection settles the raw execution: it resolves, having run the
\* statement, or rejects.
OnExecSettled(r, ok) ==
  [r EXCEPT !.pc = "settled",
            !.exec = IF ok THEN "resolved" ELSE "rejected",
            !.effects = IF ok THEN 1 ELSE 0,
            !.outcome = RaceOutcome(r.outcome, IF ok THEN "resolved" ELSE "rejected"),
            !.class = IF r.outcome = "none" /\ ~ok THEN DriverError ELSE r.class]

rawExecSettles(ok) ==
  /\ raw.exec = "inflight"
  /\ raw' = OnExecSettled(raw, ok)
  /\ rawEvents' = Append(rawEvents, IF ok THEN "resolved" ELSE "rejected")
  /\ UNCHANGED <<orderVars, options, qWhere, qTake, qSkip, isCount, isSingle, qCalls, lastExec,
                 timeout, adapterVars, cacheVars, toolVars>>

\* The timer callback, line 318: reject(new Error('Query timeout')); nothing
\* is done to the raw execution.
OnTimeoutCancel(r) ==
  [r EXCEPT !.pc = "settled", !.timer = "fired", !.exec = "cancelled",
            !.outcome = RaceOutcome(r.outcome, "timeout"),
            !.class = IF r.outcome = "none" THEN ThrownClass("timeout") ELSE r.class]
OnTimeout(r) ==
  [r EXCEPT !.pc = "settled", !.timer = "fired",
            !.outcome = RaceOutcome(r.outcome, "timeout"),
            !.class = IF r.outcome = "none" THEN ThrownClass("timeout") ELSE r.class]

rawTimerFires ==
  /\ raw.timer = "armed"
  /\ raw' = OnTimeout(raw)
  /\ rawEvents' = Append(rawEvents, "timeout")
  /\ UNCHANGED <<orderVars, options, qWhere, qTake, qSkip, isCount, isSingle, qCalls, lastExec,
                 timeout, adapterVars, cacheVars, toolVars>>

\* The caller has the result and both racers are done; executeRaw can be
\* called again.
rawReturn ==
  /\ raw.pc = "settled"
  /\ raw.exec # "inflight"
  /\ raw.timer # "armed"
  /\ raw' = NoRaw
  /\ rawEvents' = <<>>
  /\ UNCHANGED <<orderVars, options, qWhere, qTake, qSkip, isCount, isSingle, qCalls, lastExec,
                 timeout, adapterVars, cacheVars, toolVars>>

(***************************************************************************)
(* PrismaAdapter.query: routing, then a builder built from the options     *)
(***************************************************************************)
\* transformedOptions, lines 40-49: where, page and perPage are passed on when
\* truthy; take and skip are not among QueryOptions.
TransformedOptions(qo) ==
  [where |-> qo.where, take |-> NoNumber, skip |-> NoNumber,
   page |-> CopyIfTruthy(qo.page), perPage |-> CopyIfTruthy(qo.perPage),
   orderBy |-> qo.orderBy]

\* query(model, options), lines 38-52: picks the client, builds a builder from
\* the transformed options and executes it on that client. All of this runs
\* synchronously when query() is called, getReadClient's read and advance of
\* the index included; the call then awaits the connection.
query(write, qo) ==
  /\ write \/ Len(readLog) < MaxCalls
  /\ Len(inflight) < MaxInflight
  /\ inflight' = Append(inflight,
                        [write |-> write, client |-> QueryClient(write),
                         before |-> currentReadClient, after |-> QueryIndex(write),
                         call |-> Len(readLog) + (IF write THEN 0 ELSE 1)])
  /\ currentReadClient' = QueryIndex(write)
  /\ readLog' = IF write THEN readLog ELSE Append(readLog, QueryClient(write))
  /\ lastQuery' = [write |-> write, client |-> QueryClient(write),
                   before |-> currentReadClient, after |-> currentReadClient']
  /\ Construct(TransformedOptions(qo))
  /\ qCalls' = <<BCall("execute", 0, 0)>>
  /\ lastExec' = Executed(FALSE, FALSE, qWhere', qSkip', qTake')
  /\ UNCHANGED <<raw, rawEvents>>
  /\ UNCHANGED <<clients, connected, cPc, cRetries, cBudget, cFails,
                 cFailsLeft, cAttempts, dPc, callVars, configVars, cacheVars,
                 toolVars>>

\* The connection answers the i-th call in flight and query() returns, line 51.
\* Calls on different connections are answered in any order.
queryReturns(i) ==
  /\ i \in 1..Len(inflight)
  /\ inflight' = [j \in 1..(Len(inflight) - 1) |->
                    IF j < i THEN inflight[j] ELSE inflight[j + 1]]
  /\ UNCHANGED <<clients, currentReadClient, connected, readLog, lastQuery, cPc,
                 cRetries, cBudget, cFails, cFailsLeft, cAttempts, dPc, callVars,
                 configVars, builderVars, cacheVars, toolVars>>

(***************************************************************************)
(* PrismaCache (src/src/cache.ts) and the Redis store                      *)
(*                                                                         *)
(* Every awaited Redis call is one command. The client writes commands to  *)
(* one connection in call order and Redis answers them in that order, so   *)
(* `queue` holds the tasks with a command outstanding, oldest first; the   *)
(* head command is served, its reply resumes the task, and the task runs   *)
(* to its next await, which sends its next command behind the others.      *)
(* A pipeline is written to the connection as one batch and served as one  *)
(* step.                                                                   *)
(***************************************************************************)
MaxId == 6     \* ids per entity: 1..MaxId
NTasks == 2    \* cache operations that can be in progress together
MaxOps == 3    \* cache calls made one after the other in one behaviour
MaxConcOps == 2  \* cache calls made in one behaviour when they may overlap

\* zrange('cache:access', 0, 9): the last rank of an eviction batch.
ZRangeStop == 9

Models == {"post", "user"}
Ids == 1..MaxId
Tasks == 1..NTasks

\* getKey, lines 35-37: `${prefix}${model}:${id}`, one Redis key per (model, id).
getKey(model, id) == [model |-> model, id |-> id]
Keys == {getKey(m, i) : m \in Models, i \in Ids}
NoKey == [model |-> "", id |-> 0]

\* The place of a key in the lexicographic order of the key strings
\* ("prisma:post:1" < ... < "prisma:user:1" < ...), which Redis uses to order
\* members of equal score.
KeyRank(k) == IF k.model = "post" THEN k.id ELSE MaxId + k.id

\* The values given to set: plain rows ({id, name}) and a row holding a Date.
Data == {[kind |-> "object", tag |-> 1], [kind |-> "date", tag |-> 1]}
Null == [kind |-> "null", tag |-> 0]

\* JSON.stringify(data), line 68: the text is named by the JSON value it
\* denotes; a Date is written as its ISO string (Date.prototype.toJSON).
ToJSON(d) == IF d.kind = "date" THEN [kind |-> "string", tag |-> d.tag] ELSE d
JsonStringify(d) == [json |-> ToJSON(d)]
\* JSON.parse(result), line 123.
JsonParse(text) == text.json

NoVal == [present |-> FALSE, text |-> JsonStringify(Null), short |-> FALSE]
IdleTask == [op |-> "idle", pc |-> "idle", key |-> NoKey, data |-> Null,
             short |-> FALSE, size |-> 0, keys |-> {}, score |-> 0,
             ids |-> <<>>, warm |-> FALSE]
NoEvent == [op |-> "none", key |-> NoKey, data |-> Null,
            pop |-> "none", pkey |-> NoKey, pdata |-> Null]
Event(op, key, data) == [NoEvent EXCEPT !.op = op, !.key = key, !.data = data]
EmptyVals == [k \in Keys |-> NoVal]
EmptyIdx == [k \in Keys |-> 0]
NoSnap == [on |-> FALSE, vals |-> EmptyVals, idx |-> EmptyIdx]
NoWarm == [pending |-> FALSE, model |-> "", ids |-> {}]

Stored(v) == {k \in Keys : v[k].present}
Indexed(ix) == {k \in Keys : ix[k] # 0}

\* redis.dbsize(): every key of the database, the sorted set 'cache:access'
\* included while it has members.
DbSize == Cardinality(Stored(vals)) + (IF Indexed(idx) = {} THEN 0 ELSE 1)

\* Sorted-set order: by score, then by member.
Before(ix, a, b) ==
  ix[a] < ix[b] \/ (ix[a] = ix[b] /\ KeyRank(a) < KeyRank(b))

\* redis.zrange('cache:access', 0, 9), line 73: the members of rank 0..9.
ZRangeNewest ==
  {k \in Indexed(idx) :
     Cardinality({j \in Indexed(idx) : Before(idx, k, j)}) <= ZRangeStop}
ZRange ==
  {k \in Indexed(idx) :
     Cardinality({j \in Indexed(idx) : Before(idx, j, k)}) <= ZRangeStop}

\* redis.keys(`${prefix}${model}:*`), line 86.
KeysOf(model) == {k \in Stored(vals) : k.model = model}

\* get, line 123: the parsed text, or null when the key holds nothing.
GetResultMiss(v) == Null
GetResult(v) == IF v.present THEN JsonParse(v.text) ELSE Null

\* A pipeline of del(key) and zrem('cache:access', key) for each key.
RemoveVals(ks) == [k \in Keys |-> IF k \in ks THEN NoVal ELSE vals[k]]
RemoveIdx(ks) == [k \in Keys |-> IF k \in ks THEN 0 ELSE idx[k]]

\* A JavaScript number as the statistics produce them: a ratio of two counts,
\* NaN (0 / 0) or Infinity (n / 0 with n > 0).
Finite(n, d) == [kind |-> "finite", num |-> n, den |-> d]
Zero == Finite(0, 1)
NaN == [kind |-> "nan", num |-> 0, den |-> 0]
Infinity == [kind |-> "infinity", num |-> 0, den |-> 0]

\* a / b on two counts.
Divide(a, b) ==
  IF b # 0 THEN Finite(a, b) ELSE IF a = 0 THEN NaN ELSE Infinity

\* x || 0: 0 replaces the falsy numbers, NaN and 0.
OrZero(x) ==
  IF x.kind = "nan" \/ (x.kind = "finite" /\ x.num = 0) THEN Zero ELSE x

\* `a / b || 0`, lines 100 and 145-147.
Rate(a, b) == OrZero(Divide(a, b))

\* set's ttl parameter, line 59: 3600 seconds unless the caller gives one.
DefaultTtl == 3600
Ttl(short) == IF short THEN 1 ELSE DefaultTtl

NoMget == [model |-> "", ids |-> <<>>, replies |-> <<>>, results |-> <<>>]
NoFail == [op |-> "none", pc |-> "none", status |-> "none", value |-> Null]
NoWarmLog == [model |-> "", ids |-> {}, reads |-> 0, returned |-> FALSE, rows |-> {},
              writes |-> [k \in Keys |-> 0], ttls |-> {}]

NoStats == [op |-> "none", size |-> 0, total |-> 0, evictions |-> 0,
            hitRate |-> Zero, missRate |-> Zero, evictionRate |-> Zero]

\* The store before the modelled calls: the n lowest keys, written one after
\* the other by set on a cache of the given maxSize, those of `short` with a
\* short ttl and the others with the default.
\* An empty store, a store that has just reached maxSize, and one with more
\* entries than an eviction batch.
InitConfigs ==
  {[n |-> 0, maxSize |-> 1, short |-> {}],
   [n |-> 2, maxSize |-> 3, short |-> {2}],
   [n |-> 2 * MaxId - 1, maxSize |-> 2 * MaxId + 1, short |-> {}]}

InitCache(ops) ==
  /\ \E c \in InitConfigs :
       /\ maxSize = c.maxSize
       /\ vals = [k \in Keys |->
                    IF KeyRank(k) <= c.n
                      THEN [present |-> TRUE,
                            text |-> JsonStringify([kind |-> "object", tag |-> 1]),
                            short |-> KeyRank(k) \in c.short]
                      ELSE NoVal]
       /\ idx = [k \in Keys |-> IF KeyRank(k) <= c.n THEN KeyRank(k) ELSE 0]
       /\ now = c.n + 1
  /\ evictions = 0
  /\ task = [t \in Tasks |-> IdleTask]
  /\ queue = <<>>
  /\ warm = NoWarm
  /\ opsLeft = ops
  /\ lastEvent = NoEvent
  /\ snap = NoSnap
  /\ fresh = [t \in Tasks |-> {}]
  /\ hits = 0
  /\ misses = 0
  /\ lookups = 0
  /\ lookupHits = 0
  /\ lastStats = NoStats
  /\ lastMget = NoMget
  /\ lastFail = NoFail
  /\ warmLog = NoWarmLog

\* A cache on which nothing is called.
IdleCache ==
  /\ maxSize = 1
  /\ vals = EmptyVals
  /\ idx = EmptyIdx
  /\ now = 1
  /\ evictions = 0
  /\ task = [t \in Tasks |-> IdleTask]
  /\ queue = <<>>
  /\ warm = NoWarm
  /\ opsLeft = 0
  /\ lastEvent = NoEvent
  /\ snap = NoSnap
  /\ fresh = [t \in Tasks |-> {}]
  /\ hits = 0
  /\ misses = 0
  /\ lookups = 0
  /\ lookupHits = 0
  /\ lastStats = NoStats
  /\ lastMget = NoMget
  /\ lastFail = NoFail
  /\ warmLog = NoWarmLog

\* Task t's command is the next one Redis serves.
Ready(t, pc) == queue # <<>> /\ Head(queue) = t /\ task[t].pc = pc

\* The reply resumes task t, which sends its next command / returns.
Resume(t, rec) == task' = [task EXCEPT ![t] = rec] /\ queue' = Append(Tail(queue), t)
Return(t) == task' = [task EXCEPT ![t] = IdleTask] /\ queue' = Tail(queue)

\* A call starts on task slot t and runs to its first await.
Call(t, rec) ==
  /\ task[t].op = "idle"
  /\ opsLeft > 0
  /\ opsLeft' = opsLeft - 1
  /\ task' = [task EXCEPT ![t] = rec]
  /\ queue' = Append(queue, t)

\* A key written or re-scored by task t is fresh for every other task that has
\* chosen its eviction candidates and not yet removed them.
Touched(t, key) ==
  [u \in Tasks |-> IF u # t /\ task[u].pc = "evict" THEN fresh[u] \cup {key}
                   ELSE fresh[u]]

\* set(model, id, data, ttl), lines 61-62: up to the await of dbsize.
set(t, model, id, data, short) ==
  /\ Call(t, [IdleTask EXCEPT !.op = "set", !.pc = "dbsize",
                              !.key = getKey(model, id), !.data = data,
                              !.short = short])
  /\ UNCHANGED <<vals, idx, now, maxSize, evictions, warm, lastEvent, snap, fresh,
                 statVars,
                 logVars, adapterVars, builderVars, toolVars>>

\* lines 62-66: the size arrives; at or above maxSize evictOldest is entered
\* (line 73, zrange), otherwise the value is written (line 68).
set_dbsize(t) ==
  /\ Ready(t, "dbsize")
  /\ Resume(t, [task[t] EXCEPT !.size = DbSize,
                               !.pc = IF DbSize >= maxSize THEN "zrange" ELSE "set"])
  /\ snap' = [on |-> TRUE, vals |-> vals, idx |-> idx]
  /\ UNCHANGED <<vals, idx, now, maxSize, evictions, warm, opsLeft, lastEvent, fresh,
                 statVars,
                 logVars, adapterVars, builderVars, toolVars>>

\* lines 73-80: the oldest keys arrive; with any, the pipeline is sent.
set_zrange(t) ==
  /\ Ready(t, "zrange")
  /\ Resume(t, [task[t] EXCEPT !.keys = ZRange,
                               !.pc = IF ZRange # {} THEN "evict" ELSE "set"])
  /\ fresh' = [fresh EXCEPT ![t] = {}]
  /\ UNCHANGED <<vals, idx, now, maxSize, evictions, warm, opsLeft, lastEvent, snap,
                 statVars,
                 logVars, adapterVars, builderVars, toolVars>>

\* lines 75-81, then line 68: the pipeline removes the value and the index entry
\* of every candidate; the counter is raised and the value is sent.
set_evict(t) ==
  /\ Ready(t, "evict")
  /\ vals' = RemoveVals(task[t].keys)
  /\ idx' = RemoveIdx(task[t].keys)
  /\ evictions' = evictions + Cardinality(task[t].keys)
  /\ Resume(t, [task[t] EXCEPT !.pc = "set"])
  /\ fresh' = [fresh EXCEPT ![t] = {}]
  /\ UNCHANGED <<now, maxSize, warm, opsLeft, lastEvent, snap,
                 statVars,
                 logVars, adapterVars, builderVars, toolVars>>

\* lines 68-69: redis.set(key, JSON.stringify(data), 'EX', ttl) is served; the
\* task reads Date.now() and sends zadd. The clock may have moved on.
set_write(t) ==
  /\ Ready(t, "set")
  /\ vals' = [vals EXCEPT ![task[t].key] =
                [present |-> TRUE, text |-> JsonStringify(task[t].data),
                 short |-> task[t].short]]
  /\ \E time \in {now, now + 1} :
       /\ now' = time
       /\ Resume(t, [task[t] EXCEPT !.pc = "zadd", !.score = time])
  /\ lastEvent' = Event("set", task[t].key, task[t].data)
  /\ fresh' = Touched(t, task[t].key)
  /\ warmLog' = IF task[t].warm
                  THEN [warmLog EXCEPT !.writes[task[t].key] = @ + 1,
                                       !.ttls = @ \cup {Ttl(task[t].short)}]
                  ELSE warmLog
  /\ UNCHANGED <<idx, maxSize, evictions, warm, opsLeft, snap,
                 statVars, lastMget, lastFail, adapterVars, builderVars, toolVars>>

\* lines 69-70: zadd is served and set returns.
set_zadd(t) ==
  /\ Ready(t, "zadd")
  /\ idx' = [idx EXCEPT ![task[t].key] = task[t].score]
  /\ Return(t)
  /\ snap' = NoSnap
  /\ fresh' = Touched(t, task[t].key)
  /\ UNCHANGED <<vals, now, maxSize, evictions, warm, opsLeft, lastEvent,
                 statVars,
                 logVars, adapterVars, builderVars, toolVars>>

\* del(model, id), lines 105-106: up to the await of redis.del.
del(t, model, id) ==
  /\ Call(t, [IdleTask EXCEPT !.op = "del", !.pc = "del", !.key = getKey(model, id)])
  /\ UNCHANGED <<vals, idx, now, maxSize, evictions, warm, lastEvent, snap, fresh,
                 statVars,
                 logVars, adapterVars, builderVars, toolVars>>

\* lines 106-107: redis.del is served; zrem is sent.
del_del(t) ==
  /\ Ready(t, "del")
  /\ vals' = RemoveVals({task[t].key})
  /\ Resume(t, [task[t] EXCEPT !.pc = "zrem"])
  /\ UNCHANGED <<idx, now, maxSize, evictions, warm, opsLeft, lastEvent, snap, fresh,
                 statVars,
                 logVars, adapterVars, builderVars, toolVars>>

\* lines 107-108: zrem is served and del returns.
del_zrem(t) ==
  /\ Ready(t, "zrem")
  /\ idx' = RemoveIdx({task[t].key})
  /\ Return(t)
  /\ lastEvent' = Event("del", task[t].key, Null)
  /\ UNCHANGED <<vals, now, maxSize, evictions, warm, opsLeft, snap, fresh,
                 statVars,
                 logVars, adapterVars, builderVars, toolVars>>

\* The index 'cache:access' after a read of the given keys was served: get
\* sends redis.get alone (line 122) and mget a pipeline of gets alone (line
\* 43); neither sends zadd, so no score moves.
IdxAfterReadTouch(keys) == [k \in Keys |-> IF k \in keys /\ idx[k] # 0 THEN now ELSE idx[k]]
IdxAfterRead(keys) == idx

\* get(model, id), lines 121-122: up to the await of redis.get.
get(t, model, id) ==
  /\ Call(t, [IdleTask EXCEPT !.op = "get", !.pc = "get", !.key = getKey(model, id)])
  /\ UNCHANGED <<vals, idx, now, maxSize, evictions, warm, lastEvent, snap, fresh,
                 statVars,
                 logVars, adapterVars, builderVars, toolVars>>

\* lines 122-123: redis.get is served and get returns the parsed value or null.
get_get(t) ==
  /\ Ready(t, "get")
  /\ Return(t)
  /\ lastEvent' = [op |-> "get", key |-> task[t].key,
                   data |-> GetResult(vals[task[t].key]),
                   pop |-> lastEvent.op, pkey |-> lastEvent.key,
                   pdata |-> lastEvent.data]
  /\ lookups' = lookups + 1
  /\ lookupHits' = lookupHits + (IF GetResult(vals[task[t].key]) # Null THEN 1 ELSE 0)
  /\ idx' = IdxAfterRead({task[t].key})
  /\ UNCHANGED <<vals, now, maxSize, evictions, warm, opsLeft, snap, fresh,
                 hits, misses, lastStats, logVars, adapterVars, builderVars, toolVars>>

\* The reply to one get of a pipeline: an error, or the stored text if any.
Reply(key, err) ==
  [key |-> key, err |-> err, present |-> ~err /\ vals[key].present,
   text |-> IF err THEN NoVal.text ELSE vals[key].text]

\* mget, lines 46-52: a reply with an error gives null; any other is parsed
\* like get's.
MgetEntryFailAll(reply, replies) ==
  IF \E j \in 1..Len(replies) : replies[j].err THEN Null
  ELSE IF reply.present THEN JsonParse(reply.text) ELSE Null
MgetEntry(reply, replies) ==
  IF reply.err THEN Null
  ELSE IF reply.present THEN JsonParse(reply.text) ELSE Null

\* mget(model, ids), lines 40-44: up to the await of the pipeline of gets.
mget(t, model, ids) ==
  /\ Call(t, [IdleTask EXCEPT !.op = "mget", !.pc = "mget",
                              !.key = getKey(model, 0), !.ids = ids])
  /\ UNCHANGED <<vals, idx, now, maxSize, evictions, warm, lastEvent, snap, fresh,
                 statVars, logVars, adapterVars, builderVars, toolVars>>

\* lines 44-52: the pipeline is served, one reply per get and in the order of
\* the gets, any of them an error; results.map turns each reply into a result.
mget_exec(t) ==
  /\ Ready(t, "mget")
  /\ Return(t)
  /\ \E errs \in SUBSET (1..Len(task[t].ids)) :
       LET replies == [i \in 1..Len(task[t].ids) |->
                         Reply(getKey(task[t].key.model, task[t].ids[i]), i \in errs)]
       IN  /\ lastMget' = [model |-> task[t].key.model, ids |-> task[t].ids,
                           replies |-> replies,
                           results |-> [i \in 1..Len(replies) |->
                                          MgetEntry(replies[i], replies)]]
           /\ lookups' = lookups + Len(replies)
           /\ lookupHits' = lookupHits
                + Cardinality({i \in 1..Len(replies) :
                                 MgetEntry(replies[i], replies) # Null})
  /\ idx' = IdxAfterRead({getKey(task[t].key.model, task[t].ids[i]) :
                            i \in 1..Len(task[t].ids)})
  /\ UNCHANGED <<vals, now, maxSize, evictions, warm, opsLeft, lastEvent, snap,
                 fresh, hits, misses, lastStats, lastFail, warmLog,
                 adapterVars, builderVars, toolVars>>

\* An awaited Redis command is answered with an error (or the connection
\* fails): the await throws; get, set, del, invalidateModel and getCacheStats
\* have no try / catch, so the call rejects where it stands. The replies of a
\* pipeline carry their errors inside the resolved array and are not thrown.
DirectCommands == {"dbsize", "zrange", "set", "zadd", "del", "zrem", "get", "keys", "stats"}

\* What the caller of the failed call receives.
FailStatus(op) == "rejected"

commandFails(t) ==
  /\ queue # <<>> /\ Head(queue) = t
  /\ task[t].pc \in DirectCommands
  /\ Return(t)
  /\ lastFail' = [op |-> task[t].op, pc |-> task[t].pc,
                  status |-> FailStatus(task[t].op), value |-> Null]
  /\ snap' = NoSnap
  /\ fresh' = [fresh EXCEPT ![t] = {}]
  /\ UNCHANGED <<vals, idx, now, maxSize, evictions, warm, opsLeft, lastEvent,
                 statVars, lastMget, warmLog, adapterVars, builderVars, toolVars>>

\* getStats(), lines 97-102: the counters and the hit rate; it computes no
\* other rate.
getStats ==
  /\ opsLeft > 0
  /\ opsLeft' = opsLeft - 1
  /\ lastStats' = [NoStats EXCEPT !.op = "getStats",
                                  !.total = hits + misses,
                                  !.evictions = evictions,
                                  !.hitRate = Rate(hits, hits + misses)]
  /\ UNCHANGED <<vals, idx, now, maxSize, evictions, task, queue, warm, lastEvent,
                 snap, fresh, hits, misses, lookups, lookupHits,
                 logVars, adapterVars, builderVars, toolVars>>

\* getCacheStats(), line 141: up to the await of dbsize.
getCacheStats(t) ==
  /\ Call(t, [IdleTask EXCEPT !.op = "getCacheStats", !.pc = "stats"])
  /\ UNCHANGED <<vals, idx, now, maxSize, evictions, warm, lastEvent, snap, fresh,
                 statVars, logVars, adapterVars, builderVars, toolVars>>

\* lines 141-148: the size arrives and the three rates are computed.
getCacheStats_dbsize(t) ==
  /\ Ready(t, "stats")
  /\ Return(t)
  /\ lastStats' = [op |-> "getCacheStats",
                   size |-> DbSize,
                   total |-> hits + misses,
                   evictions |-> evictions,
                   hitRate |-> Rate(hits, hits + misses),
                   missRate |-> Rate(misses, hits + misses),
                   evictionRate |-> Rate(evictions, hits + misses)]
  /\ UNCHANGED <<vals, idx, now, maxSize, evictions, warm, opsLeft, lastEvent, snap,
                 fresh, hits, misses, lookups, lookupHits, logVars, adapterVars, builderVars, toolVars>>

\* invalidateModel(model), line 86: up to the await of redis.keys.
invalidateModel(t, model) ==
  /\ Call(t, [IdleTask EXCEPT !.op = "invalidateModel", !.pc = "keys",
                              !.key = getKey(model, 0)])
  /\ UNCHANGED <<vals, idx, now, maxSize, evictions, warm, lastEvent, snap, fresh,
                 statVars,
                 logVars, adapterVars, builderVars, toolVars>>

\* lines 86-93: the matching keys arrive; with any, the pipeline is sent.
invalidateModel_keys(t) ==
  /\ Ready(t, "keys")
  /\ IF KeysOf(task[t].key.model) # {}
       THEN Resume(t, [task[t] EXCEPT !.keys = KeysOf(task[t].key.model),
                                      !.pc = "exec"])
       ELSE Return(t)
  /\ UNCHANGED <<vals, idx, now, maxSize, evictions, warm, opsLeft, lastEvent, snap,
                 fresh, statVars,
                 logVars, adapterVars, builderVars, toolVars>>

\* lines 88-94: the pipeline is served and invalidateModel returns.
invalidateModel_exec(t) ==
  /\ Ready(t, "exec")
  /\ vals' = RemoveVals(task[t].keys)
  /\ idx' = RemoveIdx(task[t].keys)
  /\ Return(t)
  /\ lastEvent' = Event("invalidateModel", task[t].key, Null)
  /\ UNCHANGED <<now, maxSize, evictions, warm, opsLeft, snap, fresh,
                 statVars,
                 logVars, adapterVars, builderVars, toolVars>>

\* warmCache(model, ids), lines 111-113: up to the await of findMany.
warmCache(model, ids) ==
  /\ ~warm.pending
  /\ opsLeft >= Cardinality(ids)
  /\ warm' = [pending |-> TRUE, model |-> model, ids |-> ids]
  /\ warmLog' = [NoWarmLog EXCEPT !.model = model, !.ids = ids, !.reads = 1]
  /\ UNCHANGED <<vals, idx, now, maxSize, evictions, task, queue, opsLeft, lastEvent,
                 snap, fresh, statVars, lastMget, lastFail,
                 adapterVars, builderVars, toolVars>>

\* The idle task slots, lowest first, as many as there are.
RECURSIVE SetToSeq(_)
SetToSeq(S) ==
  IF S = {} THEN <<>>
  ELSE LET x == CHOOSE y \in S : \A z \in S : y <= z
       IN  <<x>> \o SetToSeq(S \ {x})

\* line 116: this.set(model, result.id, result), the key of the i-th row.
WarmRowKeyByIndex(model, rows, i) == getKey(model, i)
WarmRowKey(model, rows, i) == getKey(model, rows[i])

\* lines 115-117: findMany returns a row for each id of `found`; results.map
\* calls set for every row before any of them is resumed, so each set sends its
\* dbsize, in row order.
warmCache_rows(found, data) ==
  LET free == SetToSeq({t \in Tasks : task[t].op = "idle"})
      rows == SetToSeq(found)
      slot == [i \in 1..Len(rows) |-> free[i]]
      used == {slot[i] : i \in 1..Len(rows)}
  IN  /\ warm.pending
      /\ found \subseteq warm.ids
      /\ Len(rows) <= Len(free)
      /\ opsLeft >= Len(rows)
      /\ opsLeft' = opsLeft - Len(rows)
      /\ task' = [t \in Tasks |->
                    IF t \in used
                      THEN LET i == CHOOSE j \in 1..Len(rows) : slot[j] = t
                           IN  [IdleTask EXCEPT !.op = "set", !.pc = "dbsize",
                                                !.key = WarmRowKey(warm.model, rows, i),
                                                !.data = data, !.warm = TRUE]
                      ELSE task[t]]
      /\ queue' = queue \o slot
      /\ warm' = NoWarm
      /\ warmLog' = [warmLog EXCEPT !.returned = TRUE, !.rows = found]
      /\ UNCHANGED <<vals, idx, now, maxSize, evictions, lastEvent, snap, fresh,
                     statVars, lastMget, lastFail, adapterVars, builderVars, toolVars>>

\* Redis drops a key whose TTL has run out. Within the modelled time only keys
\* written with a short ttl expire.
Expire(key) ==
  /\ vals[key].present
  /\ vals[key].short
  /\ vals' = RemoveVals({key})
  /\ lastEvent' = Event("expire", key, Null)
  /\ UNCHANGED <<idx, now, maxSize, evictions, task, queue, warm, opsLeft, snap, fresh,
                 statVars,
                 logVars, adapterVars, builderVars, toolVars>>

(***************************************************************************)
(* PerformanceMonitor (src/unnamed/part_001, lines 1-44)                   *)
(***************************************************************************)
SlowThreshold == 1000   \* line 23: duration > 1000
SlowCap == 100          \* line 41: slice(-100)
MaxFree == 3            \* tracked calls whose sample is chosen freely

\* Samples are tracked until the slow-query log has outgrown its cap.
MaxTracked == SlowCap + MaxFree + 1

\* The key `${model}:${operation}`, line 15.
MonitorKey(model, operation) == <<model, operation>>
MonitorKeys == {MonitorKey("user", op) : op \in {"find", "count"}}

\* Date.now() - startTime, line 14: at, just above and below the threshold.
Durations == {SlowThreshold, SlowThreshold + 1}
Sample(model, operation, duration) ==
  [model |-> model, operation |-> operation, duration |-> duration]
Samples == {Sample(k[1], k[2], d) : k \in MonitorKeys, d \in Durations}

\* The sample of the bulk of the calls: a slow find.
BulkSample == Sample("user", "find", SlowThreshold + 1)

\* The first MaxFree calls take any sample, the later ones the bulk sample.
TrackInputs == IF Len(tracked) < MaxFree THEN Samples ELSE {BulkSample}

IdleMonitor ==
  /\ metrics = [k \in MonitorKeys |-> <<>>]
  /\ slowQueries = <<>>
  /\ tracked = <<>>

\* line 23: whether a duration is logged as slow.
IsSlow(duration) == duration > SlowThreshold

\* trackQuery(model, operation, startTime), lines 13-26.
trackQuery(s) ==
  /\ Len(tracked) < MaxTracked
  /\ metrics' = [metrics EXCEPT ![MonitorKey(s.model, s.operation)] =
                                  Append(@, s.duration)]
  /\ slowQueries' = IF IsSlow(s.duration) THEN Append(slowQueries, s) ELSE slowQueries
  /\ tracked' = Append(tracked, s)
  /\ UNCHANGED <<adapterVars, builderVars, cacheVars, setupVars>>

\* Array.prototype.slice(-n): the last n elements, all of them when there are
\* fewer.
SliceFirst(seq, n) == SubSeq(seq, 1, Min(n, Len(seq)))
SliceLast(seq, n) ==
  SubSeq(seq, (IF Len(seq) > n THEN Len(seq) - n ELSE 0) + 1, Len(seq))

\* getMetrics().slowQueries, line 41; getMetrics assigns nothing.
getMetricsSlowQueries == SliceLast(slowQueries, SlowCap)

(***************************************************************************)
(* setupPrisma (src/scripts/setup.ts, lines 9-123 and 149-198) and the     *)
(* files of the project it is run in                                       *)
(***************************************************************************)
\* The destinations of lines 29-58 and .gitignore.
Paths == {"prisma/schema.prisma", "src/app/_lib/db/index.ts", "src/app/_lib/db/types.ts",
          "src/app/auth.ts", "src/app/api/auth/[...nextauth]/route.ts", ".env.local",
          ".gitignore"}

\* A file's content: where its text comes from (the user, or the named
\* template), whether that text includes "model Account" and "# Prisma", and
\* how many times addAuthModels' block and the ignore block were added to it.
Content(kind, tpl, account, marker) ==
  [kind |-> kind, tpl |-> tpl, account |-> account, marker |-> marker,
   auth |-> 0, ignores |-> 0]
Absent == Content("absent", "", FALSE, FALSE)
UserFile(account, marker) == Content("user", "", account, marker)

\* readFileSync of a template, line 72. The base schema template holds no
\* auth model (the test of lines 31-43 of the setup tests).
Template(src) == Content("template", src, FALSE, FALSE)

\* prismaIgnores, lines 91-98: it starts with the "# Prisma" line.
prismaIgnores == Content("template", "prismaIgnores", FALSE, TRUE)

\* fs.existsSync(path) for a file.
Exists(fs, path) == fs[path].kind # "absent"

\* content.includes("model Account"), line 77: addAuthModels' block holds it.
IncludesAccount(c) == c.account \/ c.auth > 0

\* content.includes("# Prisma"), line 102.
IncludesMarker(c) == c.marker \/ c.ignores > 0

\* addAuthModels(baseSchema), lines 149-198: the schema with the block appended.
addAuthModels(c) == [c EXCEPT !.auth = @ + 1]

\* The templates array, lines 26-63, for the file system it is built in.
templates(withAuth, fs) ==
  << [src |-> "schema.prisma", dest |-> "prisma/schema.prisma", condition |-> TRUE,
      transform |-> withAuth, forceUpdate |-> withAuth],
     [src |-> "db/index.ts.template", dest |-> "src/app/_lib/db/index.ts",
      condition |-> TRUE, transform |-> FALSE, forceUpdate |-> FALSE],
     [src |-> "db/types.ts.template", dest |-> "src/app/_lib/db/types.ts",
      condition |-> TRUE, transform |-> FALSE, forceUpdate |-> FALSE],
     [src |-> "auth/auth.ts.template", dest |-> "src/app/auth.ts",
      condition |-> withAuth, transform |-> FALSE, forceUpdate |-> TRUE],
     [src |-> "auth/route.ts.template", dest |-> "src/app/api/auth/[...nextauth]/route.ts",
      condition |-> withAuth, transform |-> FALSE, forceUpdate |-> TRUE],
     [src |-> "auth/env.template", dest |-> ".env.local",
      condition |-> withAuth /\ ~Exists(fs, ".env.local"), transform |-> FALSE,
      forceUpdate |-> FALSE] >>

\* line 69.
ShouldWrite(fs, t) == ~Exists(fs, t.dest) \/ t.forceUpdate

\* lines 72-83: the content written for template t.
ContentFor(fs, t) ==
  IF ~t.transform THEN Template(t.src)
  ELSE IF t.dest = "prisma/schema.prisma" /\ Exists(fs, t.dest)
    THEN IF ~IncludesAccount(fs[t.dest]) THEN addAuthModels(fs[t.dest])
         ELSE Template(t.src)
  ELSE addAuthModels(Template(t.src))

\* The body of the forEach, lines 65-88, for one template.
CopyTemplate(fs, t) ==
  IF t.condition /\ ShouldWrite(fs, t)
    THEN [fs EXCEPT ![t.dest] = ContentFor(fs, t)] ELSE fs

RECURSIVE CopyTemplates(_, _)
CopyTemplates(fs, ts) ==
  IF ts = <<>> THEN fs ELSE CopyTemplates(CopyTemplate(fs, Head(ts)), Tail(ts))

\* lines 100-107: .gitignore gets the ignore block unless it holds "# Prisma".
UpdateGitignore(fs) ==
  IF Exists(fs, ".gitignore")
    THEN IF ~IncludesMarker(fs[".gitignore"])
           THEN [fs EXCEPT ![".gitignore"].ignores = @ + 1] ELSE fs
    ELSE [fs EXCEPT ![".gitignore"] = prismaIgnores]

\* lines 12-24: the directories made sure of.
SetupDirs(withAuth) ==
  {"prisma", "src/app/_lib/db"} \cup
  (IF withAuth THEN {"src/app/api/auth/[...nextauth]"} ELSE {})

NoFiles == [p \in Paths |-> Absent]
NoSetup == [ran |-> FALSE, withAuth |-> FALSE, before |-> NoFiles, installed |-> "none"]

\* setupPrisma(options), lines 9-123. Every file operation is synchronous, so
\* the run is one step; npm install (lines 109-120) succeeds or throws and is
\* caught.
setupPrisma(withAuth, installOk) ==
  /\ dirs' = dirs \cup SetupDirs(withAuth)
  /\ files' = UpdateGitignore(CopyTemplates(files, templates(withAuth, files)))
  /\ setupLog' = [ran |-> TRUE, withAuth |-> withAuth, before |-> files,
                  installed |-> IF ~withAuth THEN "none"
                                ELSE IF installOk THEN "ok" ELSE "failed"]
  /\ UNCHANGED <<adapterVars, builderVars, cacheVars, monitorVars>>

\* A project nothing was set up in.
IdleSetup ==
  /\ dirs = {}
  /\ files = NoFiles
  /\ setupLog = NoSetup

\* The projects setupPrisma is run in: with or without a schema (with or
\* without the Account model), an auth.ts, a db index, an .env.local and a
\* .gitignore (with or without the "# Prisma" line).
Projects ==
  {[p \in Paths |->
      CASE p = "prisma/schema.prisma" -> sc
        [] p = "src/app/auth.ts" -> au
        [] p = "src/app/_lib/db/index.ts" -> au
        [] p = ".env.local" -> en
        [] p = ".gitignore" -> gi
        [] OTHER -> Absent] :
     sc \in {Absent, UserFile(FALSE, FALSE), UserFile(TRUE, FALSE)},
     au \in {Absent, UserFile(FALSE, FALSE)},
     en \in {Absent, UserFile(FALSE, FALSE)},
     gi \in {Absent, UserFile(FALSE, FALSE), UserFile(FALSE, TRUE)}}

InitSetup ==
  /\ files \in Projects
  /\ dirs \in {{}, SetupDirs(TRUE)}
  /\ setupLog = NoSetup

\* Nothing outside the adapter, the builder and the cache is in use.
IdleTools == IdleMonitor /\ IdleSetup

(***************************************************************************)
(* Specifications                                                          *)
(***************************************************************************)
\* A filter with a string the sanitizer would change, and the QueryOptions
\* query() is called with: with or without that filter, with or without a page.
UnsafeWhere == [f \in Fields |-> IF f = "a" THEN Str(<<"x", ";">>) ELSE Unset]
AdapterQueryOptions ==
  {[where |-> w, page |-> pg[1], perPage |-> pg[2], orderBy |-> NoOrder] :
     w \in {NoWhere, UnsafeWhere},
     pg \in {<<NoNumber, NoNumber>>, <<MaxPage - 1, MaxPerPage>>}}

NextAdapter ==
  \/ getReadClient
  \/ \E write \in BOOLEAN, qo \in AdapterQueryOptions : query(write, qo)
  \/ \E i \in 1..MaxInflight : queryReturns(i)
  \/ disconnectCall
  \/ disconnectDone

AdapterInit == InitAdapter /\ InitBuilder /\ IdleCache /\ IdleTools

SpecAdapter == AdapterInit /\ [][NextAdapter]_vars

\* Connecting and disconnecting alone. The awaited $connect settles: a pending
\* attempt is eventually answered.
NextConnect ==
  \/ \E r \in 0..MaxRetries, k \in 0..MaxFails : connectCall(r, k)
  \/ connectAttemptOk
  \/ connectAttemptFail
  \/ connectReturn
  \/ disconnectCall
  \/ disconnectDone

ConnectInit == InitAdapter /\ InitBuilder /\ IdleCache /\ IdleTools

SpecConnectFair ==
  /\ ConnectInit
  /\ [][NextConnect]_vars
  /\ WF_vars(connectAttemptOk)
  /\ WF_vars(connectAttemptFail)

\* Calls made one after the other: a method is called only when no earlier
\* call is still running.
NoCallRunning == cPc \in {"idle", "resolved", "rejected"} /\ dPc = "idle" /\ boolCall.pc # "pending"

NextAdapterSeq ==
  \/ NoCallRunning /\ \E r \in 0..MaxRetries, k \in 0..MaxFails : connectCall(r, k)
  \/ connectAttemptOk
  \/ connectAttemptFail
  \/ connectReturn
  \/ NoCallRunning /\ disconnectCall
  \/ disconnectDone
  \/ NoCallRunning /\ \E o \in CallOutcomes : softDelete(o)
  \/ NoCallRunning /\ \E o \in CallOutcomes : checkConnectionPool(o)
  \/ boolCallSettles

AdapterSeqInit == InitAdapter /\ InitBuilder /\ IdleCache /\ IdleTools

SpecAdapterSeq == AdapterSeqInit /\ [][NextAdapterSeq]_vars

\* Construction and validation over the configs: no adapter exists at first.
UnbuiltAdapter ==
  /\ config \in Configs
  /\ validation = NoValidation
  /\ inflight = <<>>
  /\ ctor = "none"
  /\ created = 0
  /\ clients = <<>>
  /\ currentReadClient = 0
  /\ connected = FALSE
  /\ readLog = <<>>
  /\ lastQuery = NoQuery
  /\ cPc = "idle"
  /\ cRetries = 0
  /\ cBudget = 0
  /\ cFails = 0
  /\ cFailsLeft = 0
  /\ cAttempts = 0
  /\ dPc = "idle"
  /\ lastCall = "none"
  /\ boolCall = NoBoolCall

NextConfig ==
  \/ validateConfigCall
  \/ PrismaAdapter

ConfigInit == UnbuiltAdapter /\ InitBuilder /\ IdleCache /\ IdleTools

SpecConfig == ConfigInit /\ [][NextConfig]_vars

NextBuilder == \E c \in Conditions : where(c)

\* An adapter without replicas on which nothing is called.
IdleAdapter ==
  /\ clients = BuildClients(FALSE, 0)
  /\ created = ClientsCreated(FALSE, 0)
  /\ currentReadClient = 0
  /\ connected = FALSE
  /\ readLog = <<>>
  /\ lastQuery = NoQuery
  /\ cPc = "idle"
  /\ cRetries = 0
  /\ cBudget = 0
  /\ cFails = 0
  /\ cFailsLeft = 0
  /\ cAttempts = 0
  /\ dPc = "idle"
  /\ lastCall = "none"
  /\ boolCall = NoBoolCall
  /\ config = DefaultConfig
  /\ validation = NoValidation
  /\ inflight = <<>>
  /\ ctor = "ok"

BuilderInit == IdleAdapter /\ InitBuilder /\ IdleCache /\ IdleTools

SpecBuilder == BuilderInit /\ [][NextBuilder]_vars

\* setupPrisma alone, run any number of times.
NextSetup == \E withAuth \in BOOLEAN, installOk \in BOOLEAN : setupPrisma(withAuth, installOk)

SetupInit == IdleAdapter /\ InitBuilder /\ IdleCache /\ IdleMonitor /\ InitSetup

SpecSetup == SetupInit /\ [][NextSetup]_vars

\* The monitor alone.
NextMonitor == \E s \in TrackInputs : trackQuery(s)

MonitorInit == IdleAdapter /\ InitBuilder /\ IdleCache /\ IdleTools

SpecMonitor == MonitorInit /\ [][NextMonitor]_vars

\* Ordering: builders constructed without an ordering, with a single-object
\* ordering and with an array, then orderBy calls.
OrderOptions ==
  {[NoOptions EXCEPT !.orderBy = ob] :
     ob \in {NoOrder, OrderObject(Order("createdAt", "desc")), OrderArray(<<>>),
             OrderArray(<<Order("name", "asc"), Order("createdAt", "desc")>>)}}

NextOrder ==
  \/ \E o \in OrderOptions : PrismaQueryBuilder(o)
  \/ \E f \in OrderFields, d \in Directions : orderBy(f, d)

OrderInit == IdleAdapter /\ InitBuilder /\ IdleCache /\ IdleTools

SpecOrder == OrderInit /\ [][NextOrder]_vars

\* Pagination: builders constructed with and without take / skip options, and
\* chains of page, perPage and paginate calls on them.
PagingOptions ==
  {NoOptions, [NoOptions EXCEPT !.take = 2], [NoOptions EXCEPT !.take = 0, !.skip = 1]}

NextPaging ==
  \/ \E o \in PagingOptions : PrismaQueryBuilder(o)
  \/ \E p \in Pages : page(p)
  \/ \E n \in PageSizes : perPage(n)
  \/ \E p \in Pages : paginate(p, MaxPerPage)

PagingInit == IdleAdapter /\ InitBuilder /\ IdleCache /\ IdleTools

SpecPaging == PagingInit /\ [][NextPaging]_vars

\* Execution: builders constructed with and without a filter and a page in
\* their options, filters added by where(), the two mode calls, and execute().
ExecOptions ==
  {NoOptions, [NoOptions EXCEPT !.where = UnsafeWhere],
   [NoOptions EXCEPT !.page = MaxPage - 1, !.perPage = MaxPerPage]}
ExecConditions == UNION {[{f} -> SampleValues] : f \in Fields}

NextExecute ==
  \/ \E o \in ExecOptions : PrismaQueryBuilder(o)
  \/ \E c \in ExecConditions : where(c)
  \/ count
  \/ single
  \/ execute

ExecuteInit == IdleAdapter /\ InitBuilder /\ IdleCache /\ IdleTools

SpecExecute == ExecuteInit /\ [][NextExecute]_vars

\* Raw execution: one executeRaw call at a time, under either timeout.
NextRaw ==
  \/ \E ms \in Timeouts : setTimeout(ms)
  \/ \E q \in Statements, params \in ParamLists : executeRaw(q, params)
  \/ \E ok \in BOOLEAN : rawExecSettles(ok)
  \/ rawTimerFires
  \/ rawReturn

RawInit == IdleAdapter /\ InitBuilder /\ IdleCache /\ IdleTools

SpecRaw == RawInit /\ [][NextRaw]_vars

\* Raw statements through both entry points: the builder's executeRaw and
\* the Adapter's execute.
NextRawAll ==
  \/ \E ms \in Timeouts : setTimeout(ms)
  \/ \E q \in Statements, params \in ParamLists : executeRaw(q, params)
  \/ \E q \in Statements, params \in ParamLists : adapterExecute(q, params)
  \/ \E ok \in BOOLEAN : rawExecSettles(ok)
  \/ rawTimerFires
  \/ rawReturn

SpecRawAll == RawInit /\ [][NextRawAll]_vars

\* A timer that was started fires; the connection may never answer.
SpecRawFair == SpecRaw /\ WF_vars(rawTimerFires)

\* The entries the modelled calls name: one the initial stores hold and one
\* they do not.
OpKeys == {getKey("post", 1), getKey("user", MaxId)}

\* One cache operation at a time: each call is awaited before the next is made.
NextCacheSeq ==
  \/ \E k \in OpKeys, d \in Data, short \in BOOLEAN : set(1, k.model, k.id, d, short)
  \/ set_dbsize(1)
  \/ set_zrange(1)
  \/ set_evict(1)
  \/ set_write(1)
  \/ set_zadd(1)
  \/ \E k \in OpKeys : del(1, k.model, k.id)
  \/ del_del(1)
  \/ del_zrem(1)
  \/ \E k \in OpKeys : get(1, k.model, k.id)
  \/ get_get(1)
  \/ \E m \in Models : invalidateModel(1, m)
  \/ invalidateModel_keys(1)
  \/ invalidateModel_exec(1)
  \/ \E k \in Keys : Expire(k)

\* Statistics: sets, lookups and reads of the statistics, one after the other.
MgetIds == {<<1>>, <<MaxId, 1>>, <<1, 1>>}

NextStats ==
  \/ \E k \in OpKeys : set(1, k.model, k.id, [kind |-> "object", tag |-> 1], FALSE)
  \/ set_dbsize(1)
  \/ set_zrange(1)
  \/ set_evict(1)
  \/ set_write(1)
  \/ set_zadd(1)
  \/ \E k \in OpKeys : get(1, k.model, k.id)
  \/ get_get(1)
  \/ \E m \in Models, ids \in MgetIds : mget(1, m, ids)
  \/ mget_exec(1)
  \/ getStats
  \/ getCacheStats(1)
  \/ getCacheStats_dbsize(1)

StatsInit == IdleAdapter /\ InitBuilder /\ InitCache(MaxOps) /\ IdleTools

SpecStats == StatsInit /\ [][NextStats]_vars

\* The rows warmCache is asked for.
WarmIds == {1, MaxId}

\* Failures: cache calls made one after the other, any awaited command of
\* which may fail, and mget with errors in its replies.
NextCacheFail ==
  \/ \E k \in OpKeys : set(1, k.model, k.id, [kind |-> "object", tag |-> 1], FALSE)
  \/ set_dbsize(1)
  \/ set_zrange(1)
  \/ set_evict(1)
  \/ set_write(1)
  \/ set_zadd(1)
  \/ \E k \in OpKeys : del(1, k.model, k.id)
  \/ del_del(1)
  \/ del_zrem(1)
  \/ \E k \in OpKeys : get(1, k.model, k.id)
  \/ get_get(1)
  \/ \E m \in Models : invalidateModel(1, m)
  \/ invalidateModel_keys(1)
  \/ invalidateModel_exec(1)
  \/ \E m \in Models, ids \in MgetIds : mget(1, m, ids)
  \/ mget_exec(1)
  \/ commandFails(1)

CacheFailInit == IdleAdapter /\ InitBuilder /\ InitCache(MaxConcOps) /\ IdleTools

SpecCacheFail == CacheFailInit /\ [][NextCacheFail]_vars

\* Warming: warmCache calls, one at a time, and the sets each starts, which
\* run together.
NextWarm ==
  \/ \E m \in Models, ids \in SUBSET WarmIds :
       /\ ids # {}
       /\ \A t \in Tasks : ~task[t].warm
       /\ warmCache(m, ids)
  \/ \E found \in SUBSET WarmIds : warmCache_rows(found, [kind |-> "object", tag |-> 1])
  \/ \E t \in Tasks : set_dbsize(t)
  \/ \E t \in Tasks : set_zrange(t)
  \/ \E t \in Tasks : set_evict(t)
  \/ \E t \in Tasks : set_write(t)
  \/ \E t \in Tasks : set_zadd(t)

WarmInit == IdleAdapter /\ InitBuilder /\ InitCache(2 * MaxConcOps) /\ IdleTools

SpecWarm == WarmInit /\ [][NextWarm]_vars

CacheSeqInit == IdleAdapter /\ InitBuilder /\ InitCache(MaxOps) /\ IdleTools

SpecCacheSeq == CacheSeqInit /\ [][NextCacheSeq]_vars

\* The task slot a new call takes: the lowest idle one.
FreeSlot(t) == task[t].op = "idle" /\ \A u \in Tasks : u < t => task[u].op # "idle"

\* Calls made while others are in progress, warmCache among them.
NextCache ==
  \/ \E t \in Tasks, k \in OpKeys, short \in BOOLEAN :
       FreeSlot(t) /\ set(t, k.model, k.id, [kind |-> "object", tag |-> 1], short)
  \/ \E t \in Tasks : set_dbsize(t)
  \/ \E t \in Tasks : set_zrange(t)
  \/ \E t \in Tasks : set_evict(t)
  \/ \E t \in Tasks : set_write(t)
  \/ \E t \in Tasks : set_zadd(t)
  \/ \E t \in Tasks, k \in OpKeys : FreeSlot(t) /\ del(t, k.model, k.id)
  \/ \E t \in Tasks : del_del(t)
  \/ \E t \in Tasks : del_zrem(t)
  \/ \E t \in Tasks, k \in OpKeys : FreeSlot(t) /\ get(t, k.model, k.id)
  \/ \E t \in Tasks : get_get(t)
  \/ \E t \in Tasks, m \in Models : FreeSlot(t) /\ invalidateModel(t, m)
  \/ \E t \in Tasks : invalidateModel_keys(t)
  \/ \E t \in Tasks : invalidateModel_exec(t)
  \/ \E ids \in SUBSET WarmIds : ids # {} /\ warmCache("user", ids)
  \/ \E found \in SUBSET WarmIds : warmCache_rows(found, [kind |-> "object", tag |-> 1])
  \/ \E k \in Keys : Expire(k)

CacheInit == IdleAdapter /\ InitBuilder /\ InitCache(MaxConcOps) /\ IdleTools

SpecCache == CacheInit /\ [][NextCache]_vars

(***************************************************************************)
(* Claims about PrismaAdapter (SpecAdapter)                                *)
(***************************************************************************)

\* C1: with N read connections, any N consecutive getReadClient calls return
\* each of the N connections exactly once, and for N > 1 two consecutive calls
\* never return the same connection.
C1_RoundRobin ==
  LET n == Len(clients)
  IN  /\ \A i \in 1..(Len(readLog) - n + 1) :
           {readLog[j] : j \in i..(i + n - 1)} = {clients[j] : j \in 1..n}
      /\ n > 1 => \A i \in 1..(Len(readLog) - 1) : readLog[i] # readLog[i + 1]

\* Three replicas, and the rotation has gone round twice.
C1_Witness == Len(clients) = 3 /\ Len(readLog) >= 6

\* C2: a query with write:true runs on the write connection and leaves the
\* rotation index as it was; any other query runs on the read connection found
\* by advancing the index by exactly one modulo the pool size.
C2_QueryRouting ==
  lastQuery # NoQuery =>
    IF lastQuery.write
      THEN /\ lastQuery.client = writeClient
           /\ lastQuery.after = lastQuery.before
      ELSE /\ lastQuery.after = (lastQuery.before + 1) % Len(clients)
           /\ lastQuery.client = clients[lastQuery.after + 1]

\* A write query issued with replicas configured and the rotation off its start.
C2_Witness ==
  /\ lastQuery.write
  /\ Len(clients) >= 2
  /\ lastQuery.before = 1
  /\ currentReadClient = 1

\* The outcome and the attempt count of a connect call with budget cBudget on a
\* connection failing its first cFails attempts.
ConnectOutcome ==
  /\ cPc # "idle" => cAttempts <= cBudget + 1
  /\ cPc = "resolved" => cFails <= cBudget /\ cAttempts = Min(cFails, cBudget) + 1
  /\ cPc = "rejected" => cFails > cBudget /\ cAttempts = Min(cFails, cBudget) + 1

\* C3: connect with retry budget R on a connection failing its first k attempts
\* resolves iff k <= R, after exactly min(k, R) + 1 invocations of $connect; it
\* never makes more than R + 1 invocations, and it always settles.
C3_ConnectRetries ==
  /\ []ConnectOutcome
  /\ (cPc = "pending") ~> (cPc \in {"resolved", "rejected"})

\* Budget 2, two failures, success on the third attempt.
C3_Witness == cPc = "resolved" /\ cBudget = 2 /\ cFails = 2 /\ cAttempts = 3

(***************************************************************************)
(* Claims about PrismaQueryBuilder (SpecBuilder)                           *)
(***************************************************************************)

\* Whether string s holds the two-dash sequence.
HasDashDash(s) == \E i \in 1..(Len(s) - 1) : s[i] = "-" /\ s[i + 1] = "-"

\* C10: after where(c) every string stored in the filter holds none of the
\* characters ; ' " \ and no occurrence of the two-dash sequence.
C10_StoredSanitized ==
  \A f \in Fields :
    IsString(qWhere[f]) =>
      /\ \A i \in 1..Len(qWhere[f].str) : qWhere[f].str[i] \notin Stripped
      /\ ~HasDashDash(qWhere[f].str)

(***************************************************************************)
(* Claims about PrismaCache, one call at a time (SpecCacheSeq)             *)
(***************************************************************************)

\* The last event is a get of a key whose previous event was `op` on that key:
\* nothing happened to the key in between, and a value set has not expired.
GetRightAfter(op) ==
  lastEvent.op = "get" /\ lastEvent.pop = op /\ lastEvent.pkey = lastEvent.key

\* C4 as stated: set(entity, id, v) followed by get(entity, id) returns v, and
\* get after del returns null.
C4_GetReturnsValueSet ==
  /\ GetRightAfter("set") => lastEvent.data = lastEvent.pdata
  /\ GetRightAfter("del") => lastEvent.data = Null

\* C4 as amended: get after set returns JSON.parse(JSON.stringify(v)), which is
\* v itself for a plain row; get after del returns null.
C4_GetReturnsRoundTrip ==
  /\ GetRightAfter("set") =>
       /\ lastEvent.data = JsonParse(JsonStringify(lastEvent.pdata))
       /\ lastEvent.pdata.kind = "object" => lastEvent.data = lastEvent.pdata
  /\ GetRightAfter("del") => lastEvent.data = Null

\* A get right after a set of a plain row on the same key.
C4_Witness == GetRightAfter("set") /\ lastEvent.pdata.kind = "object"

\* The running set has passed its size check and its eviction, and its value
\* is the next command served.
AboutToWrite == snap.on /\ task[1].op = "set" /\ task[1].pc = "set"

\* The keys whose index entry went away since the size check.
Evicted == {k \in Indexed(snap.idx) : idx[k] = 0}

\* C5: a set that observes a size at or above maxSize removes, before it
\* writes, the min(10, indexed keys) keys of lowest score, value and index
\* entry both, and touches no other key; below maxSize it removes nothing.
C5_EvictsOldestBatch ==
  AboutToWrite =>
    /\ Cardinality(Evicted) =
         IF task[1].size >= maxSize
           THEN Min(ZRangeStop + 1, Cardinality(Indexed(snap.idx)))
           ELSE 0
    /\ \A e \in Evicted, k \in Indexed(snap.idx) \ Evicted : snap.idx[e] <= snap.idx[k]
    /\ \A k \in Keys :
         IF k \in Evicted
           THEN ~vals[k].present
           ELSE /\ idx[k] = snap.idx[k]
                /\ \/ vals[k] = snap.vals[k]
                   \/ snap.vals[k].short /\ ~vals[k].present

\* An eviction that took ten keys out of more than ten indexed.
C5_Witness ==
  /\ AboutToWrite
  /\ task[1].size >= maxSize
  /\ Cardinality(Evicted) = 10
  /\ Cardinality(Indexed(snap.idx)) > 10

(***************************************************************************)
(* Claims about PrismaCache under overlapping calls (SpecCache)            *)
(***************************************************************************)

\* No cache operation is in progress.
Quiescent == queue = <<>> /\ ~warm.pending

\* C6: whenever no cache operation is in progress, a key has a stored value
\* iff it has an entry in the access-order index.
C6_ValueIffIndexEntry == Quiescent => Stored(vals) = Indexed(idx)

\* Task t has removed the value of its key and not yet its index entry.
HalfRemoved(t) ==
  /\ task[t].op = "del"
  /\ task[t].pc = "zrem"
  /\ idx[task[t].key] # 0

\* C7: a removal takes a key's value and its index entry in one step: while a
\* key is half removed, the next command Redis serves is the one that finishes
\* the removal, never a command of another operation.
C7_RemovalIsAtomic == \A t \in Tasks : HalfRemoved(t) => Head(queue) = t

\* C8: what an eviction pass removes is, at the moment it is removed, among
\* the ten least recently touched index entries, and was not written or
\* re-scored by a concurrent set after the pass chose its candidates.
C8_EvictsOnlyStaleEntries ==
  \A t \in Tasks :
    Ready(t, "evict") =>
      \A k \in task[t].keys :
        /\ k \notin fresh[t]
        /\ idx[k] # 0 => k \in ZRange

\* C9: once all operations have completed, the store holds at most maxSize
\* cache entries.
C9_SizeBounded == Quiescent => Cardinality(Stored(vals)) <= maxSize

\* The strings of an executed filter hold none of the characters the sanitizer
\* strips.
NoStrippedChar(w) ==
  \A f \in Fields :
    IsString(w[f]) => \A i \in 1..Len(w[f].str) : w[f].str[i] \notin Stripped

\* C11: every query executed against a connection, by Adapter.query or by a
\* builder, carries only sanitized top-level string filter values, whether
\* the filter came through where() or through the initial options.
C11_ExecutedFilterSanitized ==
  lastExec # NoExec => NoStrippedChar(lastExec.where)

\* The builder was constructed with the entity name alone and has been given
\* exactly page(p) and then perPage(n), with n >= 1.
FreshPageThenPerPage ==
  /\ options = NoOptions
  /\ Len(qCalls) = 2
  /\ qCalls[1].op = "page"
  /\ qCalls[2].op = "perPage"
  /\ qCalls[2].a >= 1

\* C15 as stated: page(p).perPage(n) on a fresh builder yields
\* skip = (p - 1) * n and take = n.
C15_PageThenPerPage ==
  FreshPageThenPerPage =>
    qSkip = (qCalls[1].a - 1) * qCalls[2].a /\ qTake = qCalls[2].a

\* C15 as amended: page(p).perPage(n) on a fresh builder yields
\* skip = (p - 1) * 10 and take = n.
C15_PageThenPerPageDefault ==
  FreshPageThenPerPage =>
    qSkip = (qCalls[1].a - 1) * 10 /\ qTake = qCalls[2].a

C15_Witness ==
  FreshPageThenPerPage /\ qCalls[1].a = 2 /\ qCalls[2].a = 3 /\ qSkip = 10

\* The step is a call of the named builder method.
IsCall(op) ==
  /\ Len(qCalls') = Len(qCalls) + 1
  /\ qCalls'[Len(qCalls')].op = op

\* C16 as stated: perPage(n) sets take = n and leaves skip unchanged; page(p)
\* sets skip = (p - 1) * T, T being the current take or 10 when take is
\* unset, and leaves take unchanged.
C16_PageUsesCurrentTake ==
  [][/\ IsCall("perPage") =>
          qTake' = qCalls'[Len(qCalls')].a /\ qSkip' = qSkip
     /\ IsCall("page") =>
          /\ qSkip' = (qCalls'[Len(qCalls')].a - 1)
                        * (IF qTake = NoNumber THEN 10 ELSE qTake)
          /\ qTake' = qTake]_vars

\* C16 as amended: the same, T being the current take, or 10 when take is
\* unset or 0.
C16_PageUsesTruthyTake ==
  [][/\ IsCall("perPage") =>
          qTake' = qCalls'[Len(qCalls')].a /\ qSkip' = qSkip
     /\ IsCall("page") =>
          /\ qSkip' = (qCalls'[Len(qCalls')].a - 1)
                        * (IF qTake = NoNumber \/ qTake = 0 THEN 10 ELSE qTake)
          /\ qTake' = qTake]_vars

\* perPage(3), then page(2) and perPage(2): skip stays at what page computed.
C16_Witness ==
  /\ Len(qCalls) = 3
  /\ qCalls[1] = BCall("perPage", 3, 0)
  /\ qCalls[2] = BCall("page", 2, 0)
  /\ qCalls[3] = BCall("perPage", 2, 0)
  /\ qSkip = 3
  /\ qTake = 2

\* C17: Adapter.query(entity, {page: p, perPage: n}) executes the query with
\* skip = (p - 1) * n and take = n.
C17_QueryPaginates ==
  (lastQuery # NoQuery /\ options.page # NoNumber /\ options.perPage # NoNumber) =>
    /\ lastExec.skip = (options.page - 1) * options.perPage
    /\ lastExec.take = options.perPage

\* The method was called on the builder since it was constructed.
Called(op) == \E i \in 1..Len(qCalls) : qCalls[i].op = op
JustExecuted == qCalls # <<>> /\ qCalls[Len(qCalls)].op = "execute"

\* C18: execute() makes exactly one call on the connection: count if count()
\* was called (with or without single(), in either order), otherwise
\* findFirst if single() was called, otherwise findMany.
C18_ExecuteDispatch ==
  JustExecuted =>
    lastExec.calls = <<IF Called("count") THEN "count"
                       ELSE IF Called("single") THEN "findFirst"
                       ELSE "findMany">>

C18_Witness ==
  /\ JustExecuted
  /\ qCalls[1].op = "single"
  /\ qCalls[2].op = "count"
  /\ lastExec.calls = <<"count">>

\* The sample statements that start with "select" once trimmed and lower-cased.
SelectStatements ==
  {<<"S", "E", "L", "E", "C", "T", " ", "1">>,
   <<" ", "\n", "s", "e", "l", "e", "c", "t", " ", "1", " ">>,
   <<"S", "e", "L", "e", "C", "t">>,
   <<"s", "e", "l", "e", "c", "t", "x">>}

\* The three checks of the executeRaw call on its statement and parameters.
RawChecksPass ==
  /\ raw.query \in SelectStatements
  /\ \A i \in 1..Len(raw.params) :
       /\ raw.params[i].kind # "object"
       /\ raw.params[i].kind = "string" =>
            \A j \in 1..(Len(raw.params[i].str) - 1) :
              ~(raw.params[i].str[j] = "-" /\ raw.params[i].str[j + 1] = "-")

\* C12: executeRaw fails without invoking the connection's raw execution when
\* the statement, trimmed and case-folded, does not start with "select", or a
\* parameter is an object, or a string parameter contains "--"; the
\* connection is invoked only when all three checks pass.
C12_RawChecksGuardConnection ==
  raw.pc # "idle" =>
    /\ ~RawChecksPass => raw.outcome = "error" /\ raw.invoked = 0 /\ raw.effects = 0
    /\ raw.invoked = 1 => RawChecksPass

C12_Witness ==
  /\ raw.pc = "settled"
  /\ raw.outcome = "error"
  /\ raw.query \in SelectStatements
  /\ Len(raw.params) = 2
  /\ raw.params[1] = NullParam
  /\ raw.params[2].kind = "string"

\* C13: executeRaw on an accepted statement settles with whichever of the raw
\* execution and the timer settles first: the execution's outcome when it
\* settles before the timer fires, a timeout error otherwise; the later
\* settlement of the loser never changes the result delivered.
FirstSettlementDelivered ==
  raw.invoked = 1 =>
    /\ rawEvents = <<>> => raw.pc = "racing" /\ raw.outcome = "none"
    /\ rawEvents # <<>> => raw.pc = "settled" /\ raw.outcome = rawEvents[1]

C13_FirstSettlementWins ==
  /\ []FirstSettlementDelivered
  /\ (raw.pc = "racing") ~> (raw.pc = "settled")

C13_Witness ==
  /\ rawEvents = <<"resolved", "timeout">>
  /\ raw.outcome = "resolved"
  /\ raw.delay = 100

\* C14: after executeRaw has failed with a timeout the raw execution is not
\* cancelled: it is still in flight, and stays so until the connection
\* settles it.
C14_TimeoutLeavesExecutionRunning ==
  rawEvents = <<"timeout">> => raw.outcome = "timeout" /\ raw.exec = "inflight"

\* The execution completed, with its effect, after the timeout was delivered.
C14_Witness ==
  /\ rawEvents = <<"timeout", "resolved">>
  /\ raw.outcome = "timeout"
  /\ raw.exec = "resolved"
  /\ raw.effects = 1

\* C19: after any sequence of get and mget calls, hits + misses is the number
\* of key lookups performed, hits counting those that returned a value and
\* misses those that returned null.
C19_HitsAndMissesCountLookups ==
  Quiescent => hits = lookupHits /\ misses = lookups - lookupHits

\* C20: getStats and getCacheStats return 0 for every derived rate whenever
\* hits + misses is 0, whatever the eviction count is.
C20_RatesZeroWithoutAccesses ==
  (lastStats.op # "none" /\ lastStats.total = 0) =>
    /\ lastStats.hitRate = Zero
    /\ lastStats.missRate = Zero
    /\ lastStats.evictionRate = Zero

\* C21: mget(entity, ids) returns one result per requested id, in request
\* order; a read error on one key gives null for that key only, and neither
\* fails the batch nor changes the result of another key.
C21_MgetPerKeyResults ==
  lastMget # NoMget =>
    /\ Len(lastMget.results) = Len(lastMget.ids)
    /\ \A i \in 1..Len(lastMget.ids) :
         /\ lastMget.replies[i].key = getKey(lastMget.model, lastMget.ids[i])
         /\ lastMget.replies[i].err => lastMget.results[i] = Null
         /\ ~lastMget.replies[i].err =>
              lastMget.results[i] =
                IF lastMget.replies[i].present
                  THEN lastMget.replies[i].text.json ELSE Null

\* A batch of two with an error on the first key and a value for the second.
C21_Witness ==
  /\ Len(lastMget.ids) = 2
  /\ lastMget.replies[1].err
  /\ ~lastMget.replies[2].err
  /\ lastMget.results[1] = Null
  /\ lastMget.results[2] # Null

\* C22: when the store read fails get returns null instead of failing, while
\* failures of set, del and invalidateModel are propagated to the caller.
C22_ReadDegradesWritesPropagate ==
  /\ lastFail.op = "get" => lastFail.status = "resolved" /\ lastFail.value = Null
  /\ lastFail.op \in {"set", "del", "invalidateModel"} => lastFail.status = "rejected"

\* The warmCache call has its rows and every set it started has returned.
WarmDone == warmLog.returned /\ \A t \in Tasks : ~task[t].warm

\* C23: warmCache(entity, ids) issues exactly one batched read for the ids and
\* performs exactly one cache write per returned row, keyed by the row's id,
\* each with the default TTL of 3600 seconds.
C23_WarmOneReadOneWritePerRow ==
  /\ (warm.pending \/ warmLog.returned) => warmLog.reads = 1 /\ warmLog.ids # {}
  /\ \A k \in Keys : warmLog.writes[k] <= 1
  /\ warmLog.ttls \subseteq {3600}
  /\ WarmDone =>
       \A k \in Keys :
         warmLog.writes[k] = 1 <=> (k.model = warmLog.model /\ k.id \in warmLog.rows)

C23_Witness ==
  /\ WarmDone
  /\ warmLog.rows = {1, MaxId}
  /\ warmLog.writes[getKey(warmLog.model, MaxId)] = 1

\* Task t's invalidateModel call returns with this step.
InvalidateReturns(t) == task[t].op = "invalidateModel" /\ task'[t].op = "idle"

\* C24: invalidateModel(entity), run with no concurrent cache operation, leaves
\* no key of that entity with a value or an access-order entry, and leaves the
\* value and access-order entry of every other entity's keys unchanged.
C24_InvalidateRemovesEntityOnly ==
  [][\A t \in Tasks :
       InvalidateReturns(t) =>
         \A k \in Keys :
           IF k.model = task[t].key.model
             THEN ~vals'[k].present /\ idx'[k] = 0
             ELSE vals'[k] = vals[k] /\ idx'[k] = idx[k]]_vars

\* C25: softDelete and checkConnectionPool never throw: each returns true when
\* its call on the write connection succeeds and false when that call fails,
\* whether it rejects or throws before returning a promise.
C25_BooleanCallsNeverThrow ==
  boolCall.pc = "returned" =>
    /\ boolCall.result \in {"true", "false"}
    /\ boolCall.result = "true" <=> boolCall.outcome = "resolves"

\* softDelete on a model the client does not have: the call throws at once.
C25_Witness ==
  /\ boolCall.op = "softDelete"
  /\ boolCall.pc = "returned"
  /\ boolCall.outcome = "throws"
  /\ boolCall.result = "false"

\* C26: with calls made one after the other, isConnected() is false after
\* construction, true after a connect call resolved and false after a
\* disconnect call resolved; a connect call that ends rejected, its retries
\* used up, leaves it as it was at every step.
C26_ConnectedTracksLastCall ==
  /\ [](NoCallRunning =>
          /\ lastCall = "none" => ~connected
          /\ lastCall = "connect:resolved" => connected
          /\ lastCall = "disconnect:resolved" => ~connected)
  /\ [][(cPc = "pending" /\ cPc' # "resolved") => connected' = connected]_vars

\* A connected adapter whose next connect call was rejected after its retries.
C26_Witness ==
  /\ NoCallRunning
  /\ lastCall = "connect:rejected"
  /\ cBudget = MaxRetries
  /\ cAttempts = MaxRetries + 1
  /\ connected

\* C27: failures of connect and executeRaw are typed by the error taxonomy:
\* connect with its retries used up rejects with a ConnectionError, a
\* non-SELECT statement with a ValidationError, an object parameter or a string
\* parameter containing "--" with a SecurityError, and an elapsed timeout with
\* a QueryTimeoutError.
C27_FailuresAreTyped ==
  /\ cPc = "rejected" => ConnectRejection(DriverError) = "ConnectionError"
  /\ raw.error = "not-select" => raw.class = "ValidationError"
  /\ raw.error \in {"object-param", "injection"} => raw.class = "SecurityError"
  /\ raw.outcome = "timeout" => raw.class = "QueryTimeoutError"

\* Some validation rule is violated by config c.
ViolatesARule(c) ==
  \/ ~c.prisma
  \/ c.cacheEnabled /\ c.redisUrl # "set"
  \/ \E i \in 1..Len(c.log) : c.log[i] \notin {"query", "info", "warn", "error"}
  \/ c.url # "set" /\ c.envUrl # "set"
  \/ c.poolMin # NoNumber /\ c.poolMax # NoNumber /\ c.poolMin > c.poolMax

\* C28: constructing an adapter with a configuration that violates a
\* validation rule fails before any connection is created.
C28_ConstructionValidates ==
  (ctor # "none" /\ ViolatesARule(config)) => (ctor = "failed" /\ created = 0)

\* C29: validateConfig(config) fails if and only if the prisma section is
\* missing, or cache is enabled without a store URL, or some log level is
\* outside {query, info, warn, error}, or no database URL is present in the
\* config or the environment, or pool min and max are both set and min > max;
\* and it never modifies the configuration.
C29_ValidateConfigRules ==
  validation.called =>
    /\ validation.error # "none" <=> ViolatesARule(validation.config)
    /\ config = validation.config

\* A config rejected for the pool alone, its log levels all valid.
C29_Witness ==
  /\ validation.called
  /\ validation.error = "pool"
  /\ config.poolMin = MaxPool
  /\ config.poolMax = MaxPool - 1
  /\ config.log = <<"query", "error">>

\* C30: successive orderBy calls append: after orderBy(f1, d1), ...,
\* orderBy(fk, dk) the ordering is an array holding the previous ordering (a
\* single-object ordering counted as one element) followed by {f1: d1}, ...,
\* {fk: dk} in call order, no earlier element replaced or reordered.
C30_OrderByAppends ==
  orderLog # <<>> =>
    /\ qOrderBy.kind = "array"
    /\ qOrderBy.items = orderBase.items \o orderLog

\* The two calls of the spec's example, on a builder constructed with a
\* single-object ordering.
C30_Witness ==
  /\ orderBase.kind = "object"
  /\ orderLog = <<Order("createdAt", "desc"), Order("name", "asc")>>
  /\ Len(qOrderBy.items) = 3

\* The read pool the configuration calls for: the write connection alone when
\* replication is disabled or no read URL is configured, else one connection
\* per read URL (connections 1..reads) and not the write connection.
ExpectedPool(c) ==
  IF ~(c.prisma /\ c.replEnabled) \/ c.reads = 0
    THEN <<0>> ELSE [i \in 1..c.reads |-> i]

\* C31: after construction the read pool is never empty and the rotation index
\* lies in [0, pool size); the pool is exactly the write connection when
\* replication is disabled or no read URL is configured, and otherwise exactly
\* one connection per read URL, the write connection not among them.
C31_ReadPoolShape ==
  ctor = "ok" =>
    /\ Len(clients) > 0
    /\ currentReadClient \in 0..(Len(clients) - 1)
    /\ clients = ExpectedPool(config)

\* A full pool of replicas whose rotation has wrapped around to index 0.
C31_Witness ==
  /\ ctor = "ok"
  /\ config.replEnabled
  /\ Len(clients) = MaxReplicas
  /\ Len(readLog) > MaxReplicas
  /\ currentReadClient = 0

\* The samples slower than 1000 ms among those tracked, in arrival order.
SlowTracked == SelectSeq(tracked, LAMBDA s : s.duration > 1000)

\* The durations tracked under key k, in arrival order.
TrackedUnder(k) ==
  LET own == SelectSeq(tracked, LAMBDA s : <<s.model, s.operation>> = k)
  IN  [i \in 1..Len(own) |-> own[i].duration]

\* C32: getMetrics().slowQueries is exactly the most recent min(100, k) tracked
\* samples whose duration exceeded 1000 ms, in arrival order; a sample of
\* exactly 1000 ms is never recorded as slow; and every trackQuery call appends
\* exactly one duration to the history of its own entity:operation key only.
C32_SlowLogAndHistories ==
  LET k == Len(SlowTracked)
      n == IF k < 100 THEN k ELSE 100
  IN  /\ getMetricsSlowQueries = SubSeq(SlowTracked, k - n + 1, k)
      /\ \A i \in 1..Len(slowQueries) : slowQueries[i].duration # 1000
      /\ \A key \in MonitorKeys : metrics[key] = TrackedUnder(key)

\* The log has outgrown its cap by one: its oldest entry, a slow count that
\* followed a sample of exactly 1000 ms, is no longer returned.
C32_Witness ==
  /\ Len(slowQueries) = SlowCap + 1
  /\ tracked[1].duration = SlowThreshold
  /\ slowQueries[1].operation = "count"
  /\ getMetricsSlowQueries[1].operation = "find"

\* C33: setupPrisma({withAuth: true}) run in a project whose schema already
\* contains the Account model and whose src/app/auth.ts already exists leaves
\* the contents of both files unchanged.
C33_ExistingAuthSetupKept ==
  ( /\ setupLog.ran
    /\ setupLog.withAuth
    /\ setupLog.before["prisma/schema.prisma"].kind # "absent"
    /\ setupLog.before["prisma/schema.prisma"].account
    /\ setupLog.before["src/app/auth.ts"].kind # "absent" )
  => /\ files["prisma/schema.prisma"] = setupLog.before["prisma/schema.prisma"]
     /\ files["src/app/auth.ts"] = setupLog.before["src/app/auth.ts"]

\* Read queries a and b are in flight together and b was issued right after a.
BackToBack(a, b) == ~a.write /\ ~b.write /\ b.call = a.call + 1

C35_DisconnectedUntilLaterConnect ==
  [][lastCall = "disconnect:resolved" => ~connected']_vars

\* The stored entries a step removes.
RemovedByStep == {k \in Keys : vals[k].present /\ ~vals'[k].present}

\* C36: the evictions counter always equals the number of stored entries
\* actually removed by eviction passes, concurrent passes and already expired
\* keys included: the counter starts at 0 and every step that raises it raises
\* it by the number of stored entries that step removes.
C36_EvictionsCountRemovals ==
  [][evictions' # evictions => evictions' - evictions = Cardinality(RemovedByStep)]_vars

\* A step of a get or an mget call: the call starts, or its command is
\* answered.
ReadStep ==
  \E t \in Tasks :
    /\ task'[t] # task[t]
    /\ task[t].op \in {"get", "mget"} \/ task'[t].op \in {"get", "mget"}

\* C37: get and mget never modify the store or the access-order index: no
\* step of a read changes a stored value or a key's last-touch score, so the
\* keys an eviction pass would take are the same before and after the read.
C37_ReadsLeaveStoreAndIndex ==
  [][ReadStep => (vals' = vals /\ idx' = idx /\ ZRange' = ZRange)]_vars

\* A get has returned the value of a stored key that another key was touched
\* after, and an mget has returned a stored value; the clock has moved past
\* the read keys' scores.
C37_Witness ==
  /\ lastEvent.op = "get"
  /\ lastEvent.data # Null
  /\ idx[lastEvent.key] # 0
  /\ idx[lastEvent.key] < now
  /\ \E k \in Keys : idx[k] > idx[lastEvent.key]
  /\ \E i \in 1..Len(lastMget.results) :
       /\ lastMget.results[i] # Null
       /\ idx[lastMget.replies[i].key] \in 1..(now - 1)

\* C38: every raw SQL statement this layer sends to a connection, through the
\* builder's executeRaw or through the Adapter's execute, has passed the
\* SELECT-only check and the parameter validation and runs against a timer.
C38_RawStatementsChecked ==
  raw.invoked > 0 =>
    /\ IsSelect(raw.query)
    /\ validateParams(raw.params) = "none"
    /\ raw.timer # "none"

=============================================================================
